---------------------------- MODULE Spec2Model ----------------------------
(***************************************************************************)
(* A model of the workflow-driven streaming engine of live_datacleaner:    *)
(* one CLI run of cli_process.py (main, StreamingDataProcessor) over a     *)
(* small table and a workflow document.                                    *)
(*                                                                         *)
(* Text values are sequences of one-character strings.  The Cyrillic       *)
(* letters U+0418 and U+0438 are written "<U+0418>" and "<U+0438>".        *)
(* A null cell is the one-element sequence Null, which no text equals.     *)
(***************************************************************************)
EXTENDS Integers, Sequences, FiniteSets, TLC

\* --------------------------------------------------------------- bounds
\* The largest number of data rows of an input file.
MaxRows == 2
\* The longest text given to the cleaning chain on its own.
MaxText == 3
\* The longest original file name given to generate_nomad_filename.
MaxName == 3
\* The most rows of an input of process_in_streaming_chunks, and the
\* largest chunk_size.
MaxTotalRows == 3
MaxChunkSize == 2
\* The most records, the header among them, of an input of
\* process_csv_streaming.
MaxCsvRecords == 3

\* ----------------------------------------------------------- text values
Null == <<"<null>">>

CyrU == "<U+0418>"
CyrL == "<U+0438>"

\* The Pattern Registry restricted to the classes whose characters occur in
\* the inputs of the model: key -> set of characters the class matches.
\* Every modelled pattern is a single-character class, so extract_all with
\* the alternation of the selected patterns matches exactly the characters
\* of the union of the classes.
REGEX_PATTERNS_UNICODE ==
    [ cyrillic_common |-> {CyrU, CyrL},
      latin_basic     |-> {"A", "a"},
      digits          |-> {"7", "0"},
      space           |-> {" "},
      double_quote    |-> {"\""} ]

\* [REGEX_PATTERNS_UNICODE.get(p, p) for p in patterns if p in REGEX_PATTERNS_UNICODE]
\* followed by "|".join: the set of characters the combined pattern matches.
PatternStrings(patterns) ==
    LET known(p) == p \in DOMAIN REGEX_PATTERNS_UNICODE
    IN  SelectSeq(patterns, known)

\* The class of the first known pattern alone.
CombinedClassFirst(patterns) ==
    IF Len(PatternStrings(patterns)) = 0 THEN {}
    ELSE REGEX_PATTERNS_UNICODE[PatternStrings(patterns)[1]]

CombinedClass(patterns) ==
    UNION { REGEX_PATTERNS_UNICODE[PatternStrings(patterns)[i]] :
              i \in 1..Len(PatternStrings(patterns)) }

\* cast(Utf8).fill_null("").str.extract_all(combined).list.eval(len > 0)
\* .list.join("").fill_null(""): the characters of the value that the
\* combined pattern matches, in order; a null becomes the empty text.
ApplyRegex(patterns, v) ==
    LET keep(ch) == ch \in CombinedClass(patterns)
    IN  SelectSeq(IF v = Null THEN <<>> ELSE v, keep)

\* pl.concat_str(cols, separator=sep): null as soon as one input is null,
\* otherwise the inputs joined by the separator.
RECURSIVE JoinText(_, _)
JoinText(vals, sep) ==
    IF Len(vals) = 0 THEN <<>>
    ELSE IF Len(vals) = 1 THEN vals[1]
    ELSE vals[1] \o sep \o JoinText(Tail(vals), sep)

ConcatStr(vals, sep) ==
    IF \E i \in 1..Len(vals) : vals[i] = Null THEN Null ELSE JoinText(vals, sep)

\* str.to_lowercase on one character.
LowerChar(ch) ==
    CASE ch = CyrU -> CyrL
      [] ch = "A"  -> "a"
      [] OTHER     -> ch

ToLowercase(v) == IF v = Null THEN Null ELSE [i \in 1..Len(v) |-> LowerChar(v[i])]

\* ------------------------------------------------- step 7: data cleaning
\* No character is taken for a quote.
QuoteCharsNone  == {}

QuoteChars      == {"\"", "'"}
\* &nbsp;|\\n|\\t|\\r|\xa0|\ufeff : the literal tokens replaced by a space
SpaceTokens ==
    << <<"&", "n", "b", "s", "p", ";">>, <<"\\", "n">>, <<"\\", "t">>, <<"\\", "r">>,
       <<"<U+00A0>">>, <<"<U+FEFF>">> >>
LineBreakChars  == {"<LF>", "<CR>", "<TAB>"}
UnicodeSpaces   == {"<U+00A0>", "<U+202F>", "<U+2007>", "<U+1680>", "<U+180E>", "<U+205F>"}
InvisibleChars  == {"<U+200B>", "<U+200C>", "<U+200D>", "<U+2060>", "<U+00AD>",
                    "<U+200E>", "<U+200F>", "<U+061C>"}
ControlChars    == {"<LF>", "<CR>", "<TAB>", "<NUL>", "<DEL>"}
\* What \s and strip_chars() still match after the replacements above: the
\* space and the Unicode whitespace the earlier rules do not list (U+2003).
WhitespaceChars == {" ", "<U+2003>"}

\* The element of a one-element set.  Binding the result of one call of a
\* chain as the element of a set evaluates it once, as Python does.
Only(S) == CHOOSE x \in S : TRUE

DeleteChars(v, set) ==
    LET keep(ch) == ch \notin set IN SelectSeq(v, keep)

ReplaceChars(v, set, by) ==
    [i \in 1..Len(v) |-> IF v[i] \in set THEN by ELSE v[i]]

HasPrefix(v, t) == Len(v) >= Len(t) /\ SubSeq(v, 1, Len(t)) = t

\* str.replace_all of the token alternation by ' ', leftmost matches first.
RECURSIVE ReplaceTokens(_)
ReplaceTokens(v) ==
    IF Len(v) = 0 THEN <<>>
    ELSE IF \E i \in 1..Len(SpaceTokens) : HasPrefix(v, SpaceTokens[i])
         THEN LET i == CHOOSE j \in 1..Len(SpaceTokens) : HasPrefix(v, SpaceTokens[j])
              IN  <<" ">> \o ReplaceTokens(SubSeq(v, Len(SpaceTokens[i]) + 1, Len(v)))
         ELSE <<v[1]>> \o ReplaceTokens(Tail(v))

\* The number of leading whitespace characters.
RECURSIVE RunLen(_)
RunLen(v) ==
    IF Len(v) > 0 /\ v[1] \in WhitespaceChars THEN 1 + RunLen(Tail(v)) ELSE 0

\* str.replace_all(r'\s{2,}', ' '): every maximal run of two or more
\* whitespace characters becomes one space; a single one is kept as it is.
RECURSIVE CollapseSpaces(_)
CollapseSpaces(v) ==
    IF Len(v) = 0 THEN <<>>
    ELSE IF RunLen(v) >= 2
         THEN <<" ">> \o CollapseSpaces(SubSeq(v, RunLen(v) + 1, Len(v)))
         ELSE <<v[1]>> \o CollapseSpaces(Tail(v))

\* str.strip_chars(): leading and trailing whitespace removed.
RECURSIVE StripLeft(_)
StripLeft(v) ==
    IF Len(v) > 0 /\ v[1] \in WhitespaceChars THEN StripLeft(Tail(v)) ELSE v

RECURSIVE StripRight(_)
StripRight(v) ==
    IF Len(v) > 0 /\ v[Len(v)] \in WhitespaceChars
    THEN StripRight(SubSeq(v, 1, Len(v) - 1)) ELSE v

StripChars(v) == Only({ StripRight(s) : s \in { StripLeft(v) } })

\* The chain of replace_all calls and strip_chars of _apply_data_cleaning on
\* a non-null text.
CleanText(v) ==
    Only({ StripRight(s8) : s8 \in
         { StripLeft(s7) : s7 \in
         { CollapseSpaces(s6) : s6 \in
         { DeleteChars(s5, ControlChars) : s5 \in
         { DeleteChars(s4, InvisibleChars) : s4 \in
         { ReplaceChars(s3, UnicodeSpaces, " ") : s3 \in
         { ReplaceChars(s2, LineBreakChars, " ") : s2 \in
         { ReplaceTokens(s1) : s1 \in
         { DeleteChars(v, QuoteChars) } } } } } } } } })

\* The list without "nan" and "0".
EmptyTokensShort ==
    { <<>>, <<" ">>, <<"N", "a", "N">>, <<"n", "o", "n", "e">>,
      <<"N", "o", "n", "e">>, <<"n", "u", "l", "l">>, <<"N", "U", "L", "L">> }

\* ["", " ", "nan", "NaN", "none", "None", "null", "NULL", "0"]
EmptyTokens ==
    { <<>>, <<" ">>, <<"n", "a", "n">>, <<"N", "a", "N">>, <<"n", "o", "n", "e">>,
      <<"N", "o", "n", "e">>, <<"n", "u", "l", "l">>, <<"N", "U", "L", "L">>, <<"0">> }

\* when(strip_chars(v) in EmptyTokens | v is null).then(None).otherwise(v)
EmptyToNull(v) ==
    IF v = Null \/ StripChars(v) \in EmptyTokens THEN Null ELSE v

\* _apply_data_cleaning on one cell of a textual column.
CleanValue(v) ==
    IF v = Null THEN Null ELSE Only({ EmptyToNull(t) : t \in { CleanText(v) } })

\* ------------------------------------------------------ sequence helpers
SeqToSet(s) == { s[i] : i \in 1..Len(s) }

\* A test of duplicates that finds none.
HasDuplicatesNever(s) == FALSE

HasDuplicates(s) == \E i, j \in 1..Len(s) : i # j /\ s[i] = s[j]

KeepIn(s, set) ==
    LET in(x) == x \in set IN SelectSeq(s, in)

\* The subsequence of s at the indices of idx, in the order of s.
RECURSIVE SubSeqAt(_, _, _)
SubSeqAt(s, idx, i) ==
    IF i > Len(s) THEN <<>>
    ELSE (IF i \in idx THEN <<s[i]>> ELSE <<>>) \o SubSeqAt(s, idx, i + 1)

\* ------------------------------------------------------------ the inputs
\* The schema of the model's source file; every column is textual.
SourceSchema == <<"id", "first", "last">>

MkRow(id, first, last) == [id |-> id, first |-> first, last |-> last]

\* The rows an input file is made of.
RowPool ==
    { MkRow(<<"7">>, <<CyrU, "a">>, <<"A">>),
      MkRow(<<"7">>, Null, <<CyrU, "7">>),
      MkRow(<<"A", "\\", "\"", "n">>, <<CyrU, "a">>, <<CyrL>>) }

RECURSIVE TablesOfLen(_)
TablesOfLen(n) ==
    IF n = 0 THEN { <<>> }
    ELSE { Append(t, r) : t \in TablesOfLen(n - 1), r \in RowPool }

Tables == UNION { TablesOfLen(n) : n \in 0..MaxRows }

Concat(name, sources, sep) ==
    [name |-> name, source_columns |-> sources, separator |-> sep]
Rule(col, patterns) == [col |-> col, patterns |-> patterns]
Display(old, new) == [old |-> old, new |-> new]
Field(name) == [kind |-> "field", name |-> name, fields |-> <<>>]
Group(key, fields) == [kind |-> "group", name |-> key, fields |-> fields]
\* A dict item whose value is not a list, as {"grp": 5}.
BadGroup(key) == [kind |-> "badgroup", name |-> key, fields |-> <<>>]

\* A workflow document with every key at its "absent" value, but for year
\* and country_code, which are present.
BaseWorkflow ==
    [ exclude         |-> <<>>,
      display_names   |-> <<>>,
      concatenations  |-> <<>>,
      regex_rules     |-> <<>>,
      dedup           |-> <<>>,
      not_empty       |-> <<>>,
      main_info       |-> <<>>,
      additional_info |-> <<>>,
      has_year        |-> TRUE,
      year            |-> 2024,
      year_literal    |-> TRUE,
      has_country     |-> TRUE,
      country_code    |-> "kg" ]

ConcatChoices ==
    { <<>>,
      << Concat("fio", <<"first", "last">>, <<" ">>) >>,
      << Concat("t1", <<"first">>, <<>>),
         Concat("t2", <<"first", "last">>, <<" ">>) >> }

RegexChoices ==
    { <<>>,
      << Rule("fio", <<"cyrillic_common">>) >>,
      << Rule("t1", <<"latin_basic">>), Rule("t2", <<"cyrillic_common">>) >>,
      << Rule("first", <<"latin_basic">>), Rule("fio", <<"cyrillic_common">>) >>,
      << Rule("last", <<"latin_basic", "digits">>) >> }

ExcludeChoices == { <<>>, <<"first">>, <<"nope">> }

DisplayChoices ==
    { <<>>,
      << Display("first", "name") >>,
      << Display("first", "last"), Display("last", "first") >> }

DedupChoices == { <<>>, <<"first">>, <<"id">> }

NotEmptyChoices == { <<>>, <<"first">>, <<"nope">> }

StructureChoices ==
    { [main_info |-> <<>>, additional_info |-> <<>>],
      [main_info |-> <<"id", "additional_info">>,
       additional_info |-> << Field("first"), Group("grp", <<"last">>) >>] }

\* Workflows that vary the column operations.
ColumnWorkflows ==
    { [BaseWorkflow EXCEPT !.concatenations = c, !.regex_rules = r, !.exclude = x] :
        c \in ConcatChoices, r \in RegexChoices, x \in ExcludeChoices }

\* Workflows that vary the renaming and what refers to column names.
ReferenceWorkflows ==
    { [BaseWorkflow EXCEPT !.display_names = d, !.dedup = k, !.not_empty = n,
                           !.main_info = s.main_info,
                           !.additional_info = s.additional_info] :
        d \in DisplayChoices, k \in DedupChoices, n \in NotEmptyChoices,
        s \in StructureChoices }

\* Workflows that lack the year key, the country_code key, or both.
MetadataWorkflows ==
    { [BaseWorkflow EXCEPT !.has_year = y, !.has_country = c] :
        y \in BOOLEAN, c \in BOOLEAN }
        \cup { [BaseWorkflow EXCEPT !.country_code = "xx"] }

\* Concatenations whose source is an earlier target, whose source is
\* missing, or whose name is a column of the file; with exclusions that name
\* a target.
ConcatEdgeChoices ==
    { << Concat("fio", <<"first", "last">>, <<" ">>) >>,
      << Concat("t1", <<"first">>, <<>>),
         Concat("t2", <<"t1", "last">>, <<" ">>) >>,
      << Concat("fio", <<"first", "nope">>, <<" ">>) >>,
      << Concat("last", <<"first", "last">>, <<" ">>) >> }

ConcatWorkflows ==
    { [BaseWorkflow EXCEPT !.concatenations = c, !.exclude = x] :
        c \in ConcatEdgeChoices, x \in { <<>>, <<"fio">>, <<"t1", "nope">> } }

\* display_names whose new name is a retained column, or is the new name of
\* two columns.
CollisionWorkflows ==
    { [BaseWorkflow EXCEPT !.display_names = d] :
        d \in { << Display("first", "last") >>,
                << Display("first", "x"), Display("last", "x") >> } }

\* Rules with a key the registry lacks, and a rule with no key.
RegexEdgeWorkflows ==
    { [BaseWorkflow EXCEPT !.regex_rules = r] :
        r \in { << Rule("last", <<"bogus">>) >>,
                << Rule("last", <<"latin_basic", "bogus">>) >>,
                << Rule("last", <<>>) >>,
                << Rule("id", <<"digits">>), Rule("nope", <<"digits">>) >>,
                << Rule("id", <<"double_quote", "latin_basic">>) >> } }
        \cup
    { [BaseWorkflow EXCEPT
          !.concatenations = << Concat("fio", <<"first", "last">>, <<" ">>) >>,
          !.regex_rules = << Rule("fio", <<"bogus">>) >>] }

\* Structures with members that do not exist, a string item that is a group
\* key, a group with no existing member, and no additional_info at all.
StructureEdgeChoices ==
    { [main_info |-> <<"last", "id", "nope">>,
       additional_info |-> << Field("nope"), Field("first"),
                              Group("first", <<"last", "nope">>),
                              Group("empty", <<"nope">>) >>],
      [main_info |-> <<"last", "id">>, additional_info |-> <<>>],
      [main_info |-> <<>>,
       additional_info |-> << Group("grp", <<"nope">>) >>] }

StructureWorkflows ==
    { [BaseWorkflow EXCEPT !.main_info = s.main_info,
                           !.additional_info = s.additional_info] :
        s \in StructureEdgeChoices }

\* Workflows of a shape the steps do not expect: a group that is no list of
\* names, and a year that is a JSON object (year_literal is false), of which
\* pl.lit makes no literal.
MalformedWorkflows ==
    { [BaseWorkflow EXCEPT !.main_info = m, !.additional_info = a,
                           !.year_literal = y] :
        m \in { << "id" >> },
        a \in { << Field("first"), BadGroup("grp") >>, << Field("first") >> },
        y \in BOOLEAN }

Workflows ==
    ColumnWorkflows \cup ReferenceWorkflows \cup MetadataWorkflows
        \cup ConcatWorkflows \cup CollisionWorkflows \cup RegexEdgeWorkflows
        \cup StructureWorkflows \cup MalformedWorkflows

\* config.py, line 165: the default of the environment variable.
ALLOWED_COUNTRY_CODES == { "ru", "kg", "uz", "tm", "ua", "by", "nl", "az" }

\* get_current_year(): datetime.now().year
CurrentYear == 2026

\* ------------------------------------------------------------- the state
VARIABLES
    pc,          \* where main / process_streaming stands
    step,        \* index of the next pipeline step (pc = "pipeline")
    wf,          \* the workflow dict, as loaded and as rewritten since
    input,       \* the rows of the input file
    schema,      \* the top-level column names of the lazy plan, in order
    rows,        \* the rows the plan yields: column (leaf) name -> value
    nested,      \* the plan ends in the select of _apply_nesting
    addl,        \* the fields of the additional_info struct
    meta,        \* the literal columns of _add_metadata_fields
    available,   \* available_columns of apply_column_operations
    updated,     \* updated_columns of apply_column_operations
    targets,     \* targets_with_regex
    precleanSet, \* sources_preclean_by_target_regex
    regexLog,    \* the columns that received an extraction pass, in order
    trace,       \* the pipeline steps that have completed, in order
    planErr,     \* the plan refers to a column its schema cannot resolve
    result,      \* what process_streaming returned: "none", "true", "false"
    err,         \* the failure of the run, "" while there is none
    exitCode,    \* the exit status of the process, -1 while it runs
    outFile,     \* the file at the output path: "absent", "partial", "complete"
    outRows,     \* the rows of a complete output file
    memory,      \* psutil.virtual_memory().percent, the usage of memory
    crun,        \* per run of process_in_streaming_chunks: its locals
    disk,        \* the chunk files that exist, each with its writer
    fname,       \* the arguments and results of the file-name functions
    csv          \* the locals and the files of process_csv_streaming

vars == << pc, step, wf, input, schema, rows, nested, addl, meta, available,
           updated, targets, precleanSet, regexLog, trace, planErr, result, err,
           exitCode, outFile, outRows, memory, crun, disk, fname, csv >>

\* The state of the command-line run and of process_file_streaming.
cliVars == << pc, step, wf, input, schema, rows, nested, addl, meta, available,
              updated, targets, precleanSet, regexLog, trace, planErr, result, err,
              exitCode, outFile, outRows >>

\* The state of the chunked routine of utils/streaming_processor.py.
chunkVars == << crun, disk >>

\* What no step of the command-line run reads or writes.
auxVars == << memory, chunkVars, fname, csv >>

planVars == << schema, rows, nested, addl, meta >>
localVars == << available, updated, targets, precleanSet >>

NoStruct == [flat |-> <<>>, groups |-> <<>>]
NoMeta == [added |-> FALSE, year |-> 0, country_code |-> ""]

\* cli_process.py, line 33: the default of max_memory_percent.
MaxMemoryPercent == 80

\* The readings of memory usage: below, at and above the threshold.
MemorySamples == { MaxMemoryPercent - 1, MaxMemoryPercent, MaxMemoryPercent + 1 }

\* The runs of process_in_streaming_chunks that may execute at once.
Runs == { 1, 2 }

\* A run that has not been entered.
IdleRun ==
    [ pc |-> "idle", temp_dir |-> "", total_rows |-> 0, chunk_size |-> 1,
      offset |-> 0, chunks |-> <<>>, temp_files |-> <<>>, memOk |-> TRUE,
      pending |-> "", ret |-> "", scans |-> {} ]

\* The temp directories that exist and the chunk files in them.
NoDisk == [ dirs |-> {}, files |-> {} ]

ChunkIdle ==
    /\ crun = [r \in Runs |-> IdleRun]
    /\ disk = NoDisk

\* No call of the file-name functions.
IdleName ==
    [ pc |-> "idle", country_code |-> <<>>, original_filename |-> <<>>,
      year |-> <<>>, version |-> <<>>, filename |-> <<>>, error |-> "",
      accepted |-> "none" ]

FileIdle == fname = IdleName

\* No call of process_csv_streaming.
IdleCsv ==
    [ pc |-> "idle", records |-> <<>>, expected_columns |-> 0, pos |-> 1,
      out |-> <<>>, bad |-> <<>>, valid_count |-> 0, bad_count |-> 0,
      ret |-> "none" ]

CsvIdle == csv = IdleCsv

Init ==
    /\ pc = "check"
    /\ step = 1
    /\ wf = BaseWorkflow
    /\ input = <<>>
    /\ schema = <<>>
    /\ rows = <<>>
    /\ nested = FALSE
    /\ addl = NoStruct
    /\ meta = NoMeta
    /\ available = {}
    /\ updated = {}
    /\ targets = {}
    /\ precleanSet = {}
    /\ regexLog = <<>>
    /\ trace = <<>>
    /\ planErr = FALSE
    /\ result = "none"
    /\ err = ""
    /\ exitCode = -1
    /\ outFile = "absent"
    /\ outRows = <<>>
    /\ memory \in MemorySamples
    /\ ChunkIdle
    /\ FileIdle
    /\ CsvIdle

\* ------------------------------------------------------------------ main
\* sys.exit(1) of main, and the exit status of an uncaught exception.
ExitFailure(kind) ==
    /\ pc' = "exited"
    /\ err' = kind
    /\ exitCode' = 1

\* main, lines 500-510: both paths must exist.
CheckInputs ==
    /\ pc = "check"
    /\ \E inputExists \in BOOLEAN, workflowExists \in BOOLEAN :
         IF inputExists /\ workflowExists
         THEN /\ pc' = "load"
              /\ UNCHANGED << err, exitCode >>
         ELSE ExitFailure(IF inputExists THEN "WorkflowNotFound" ELSE "InputNotFound")
    /\ UNCHANGED << trace, step, wf, input, planVars, localVars, regexLog, planErr,
                    result, outFile, outRows >>
    /\ UNCHANGED auxVars

\* main, line 519, and load_workflow: json.load of the workflow file; its
\* exception is re-raised and nothing in main catches it.
LoadWorkflow ==
    /\ pc = "load"
    /\ \/ \E w \in Workflows :
            /\ wf' = w
            /\ pc' = "prepare"
            /\ UNCHANGED << err, exitCode >>
       \/ /\ ExitFailure("WorkflowUnreadable")
          /\ UNCHANGED wf
    /\ UNCHANGED << trace, step, input, planVars, localVars, regexLog, planErr,
                    result, outFile, outRows >>
    /\ UNCHANGED auxVars

\* main, lines 537-547 and 559-561: the parser defines neither --year nor
\* --country-code, so args.year and args.country_code raise AttributeError,
\* which the except clause turns into sys.exit(1).
PrepareWorkflow ==
    /\ pc = "prepare"
    /\ IF wf.has_year /\ wf.has_country
       THEN /\ pc' = "scan"
            /\ UNCHANGED << err, exitCode >>
       ELSE ExitFailure("AttributeError")
    /\ UNCHANGED << trace, step, wf, input, planVars, localVars, regexLog, planErr,
                    result, outFile, outRows >>
    /\ UNCHANGED auxVars

\* process_streaming, line 465-467: any exception makes it return False.
ReturnFalse(kind) ==
    /\ pc' = "finish"
    /\ result' = "false"
    /\ err' = kind

\* process_streaming, lines 425-428: the lazy scan of the input file.
ScanSource ==
    /\ pc = "scan"
    /\ \/ \E t \in Tables :
            /\ input' = t
            /\ rows' = t
            /\ schema' = SourceSchema
            /\ pc' = "begin"
            /\ UNCHANGED << result, err >>
       \/ /\ ReturnFalse("SourceError")
          /\ UNCHANGED << input, rows, schema >>
    /\ UNCHANGED << trace, step, wf, nested, addl, meta, localVars, regexLog, planErr,
                    exitCode, outFile, outRows >>
    /\ UNCHANGED auxVars

\* ------------------------------------------------ apply_column_operations
\* An order that drops the excluded columns before it concatenates.
ColumnOpsExcludeFirst ==
    << "preclean", "exclude", "concat", "regex", "rename", "lowercase", "clean",
       "nest", "meta" >>

\* The order in which apply_column_operations applies its steps.
ColumnOps ==
    << "preclean", "concat", "exclude", "regex", "rename", "lowercase", "clean",
       "nest", "meta" >>

\* process_streaming, lines 433-435: the column operations (which end with
\* the nesting and the metadata fields), then validation, then deduplication.
RowOps == << "validate", "dedup" >>

Pipeline == ColumnOps \o RowOps

AtStep(name) == pc = "pipeline" /\ step <= Len(Pipeline) /\ Pipeline[step] = name

Continue ==
    /\ trace' = Append(trace, Pipeline[step])
    /\ step' = step + 1
    /\ pc' = IF step = Len(Pipeline) THEN "sink" ELSE "pipeline"
    /\ UNCHANGED << result, err >>

\* An exception of a step is logged and re-raised up to process_streaming.
Raise(kind) ==
    /\ ReturnFalse(kind)
    /\ UNCHANGED << step, trace >>

\* regex_rules.get(col) or []
RuleFor(w, col) ==
    IF \E i \in 1..Len(w.regex_rules) : w.regex_rules[i].col = col
    THEN w.regex_rules[CHOOSE i \in 1..Len(w.regex_rules) :
                          w.regex_rules[i].col = col].patterns
    ELSE <<>>

\* No source is marked as pre-cleaned.
SourcesPrecleanNone(w, avail) == {}

\* Lines 74-82: the targets that have a regex rule, and their sources that
\* exist in the schema the function was entered with.
TargetsWithRegex(w) ==
    { w.concatenations[i].name : i \in
        { j \in 1..Len(w.concatenations) :
            RuleFor(w, w.concatenations[j].name) # <<>> } }

SourcesPreclean(w, avail) ==
    UNION { SeqToSet(w.concatenations[i].source_columns) \cap avail : i \in
        { j \in 1..Len(w.concatenations) :
            RuleFor(w, w.concatenations[j].name) # <<>> } }

\* Lines 63-82: the schema is resolved once, and the two sets are computed.
BeginColumnOps ==
    /\ pc = "begin"
    /\ available' = SeqToSet(schema)
    /\ targets' = TargetsWithRegex(wf)
    /\ precleanSet' = SourcesPreclean(wf, SeqToSet(schema))
    /\ pc' = "pipeline"
    /\ UNCHANGED << trace, step, wf, input, planVars, updated, regexLog, planErr,
                    result, err, exitCode, outFile, outRows >>
    /\ UNCHANGED auxVars

\* One extraction pass over a column of the plan.
RegexCol(rws, col, patterns) ==
    [i \in 1..Len(rws) |-> [rws[i] EXCEPT ![col] = ApplyRegex(patterns, @)]]

RECURSIVE ApplyJobs(_, _)
ApplyJobs(rws, jobs) ==
    IF Len(jobs) = 0 THEN rws
    ELSE ApplyJobs(RegexCol(rws, jobs[1].col, jobs[1].patterns), Tail(jobs))

JobColumns(jobs) == [i \in 1..Len(jobs) |-> jobs[i].col]

\* Lines 85-106, one concatenation entry: its rule is applied to each of its
\* sources that is in sources_preclean_by_target_regex.
PrecleanJobsOf(w, c, tgts, pre) ==
    IF c.name \in tgts /\ Len(PatternStrings(RuleFor(w, c.name))) > 0
    THEN LET srcs == KeepIn(c.source_columns, pre)
         IN  [i \in 1..Len(srcs) |-> Rule(srcs[i], RuleFor(w, c.name))]
    ELSE <<>>

RECURSIVE PrecleanJobs(_, _, _, _)
PrecleanJobs(w, concats, tgts, pre) ==
    IF Len(concats) = 0 THEN <<>>
    ELSE PrecleanJobsOf(w, concats[1], tgts, pre)
           \o PrecleanJobs(w, Tail(concats), tgts, pre)

\* Step 1, lines 84-106.
StepPreclean ==
    /\ AtStep("preclean")
    /\ LET jobs == PrecleanJobs(wf, wf.concatenations, targets, precleanSet)
       IN  IF SeqToSet(JobColumns(jobs)) \subseteq SeqToSet(schema)
           THEN /\ rows' = ApplyJobs(rows, jobs)
                /\ regexLog' = regexLog \o JobColumns(jobs)
                /\ UNCHANGED planErr
           ELSE /\ planErr' = TRUE
                /\ UNCHANGED << rows, regexLog >>
    /\ Continue
    /\ UNCHANGED << wf, input, schema, nested, addl, meta, localVars, exitCode,
                    outFile, outRows >>
    /\ UNCHANGED auxVars

\* with_columns([expr.alias(name)]): a new column is appended, an existing
\* one is replaced where it stands.
WithColumn(sch, name) == IF name \in SeqToSet(sch) THEN sch ELSE Append(sch, name)

SetColumn(rws, name, vals) ==
    [i \in 1..Len(rws) |->
        [c \in DOMAIN rws[i] \cup {name} |->
            IF c = name THEN vals[i] ELSE rws[i][c]]]

\* Lines 110-122, one entry: built when every source is in available_columns,
\* skipped with a warning otherwise.  st = [schema, rows, err].
ConcatOne(st, c, avail) ==
    LET srcs  == c.source_columns
        valid == KeepIn(srcs, avail)
        vals  == [i \in 1..Len(st.rows) |->
                     ConcatStr([k \in 1..Len(srcs) |-> st.rows[i][srcs[k]]],
                               c.separator)]
    IN  IF Len(valid) > 0 /\ Len(valid) = Len(srcs)
        THEN IF st.err \/ ~(SeqToSet(srcs) \subseteq SeqToSet(st.schema))
             THEN [st EXCEPT !.err = TRUE]
             ELSE [schema |-> WithColumn(st.schema, c.name),
                   rows   |-> SetColumn(st.rows, c.name, vals),
                   err    |-> FALSE]
        ELSE st

RECURSIVE ConcatAll(_, _, _)
ConcatAll(st, concats, avail) ==
    IF Len(concats) = 0 THEN st
    ELSE ConcatAll(ConcatOne(st, concats[1], avail), Tail(concats), avail)

\* Step 2, lines 108-122.
StepConcat ==
    /\ AtStep("concat")
    /\ LET st == ConcatAll([schema |-> schema, rows |-> rows, err |-> planErr],
                           wf.concatenations, available)
       IN  /\ schema' = st.schema
           /\ rows' = st.rows
           /\ planErr' = st.err
    /\ Continue
    /\ UNCHANGED << wf, input, nested, addl, meta, localVars, regexLog, exitCode,
                    outFile, outRows >>
    /\ UNCHANGED auxVars

DropColumns(rws, names) ==
    [i \in 1..Len(rws) |-> [c \in DOMAIN rws[i] \ names |-> rws[i][c]]]

\* Step 3, lines 124-134: the excluded names that are in available_columns
\* are dropped; the others are reported.
StepExclude ==
    /\ AtStep("exclude")
    /\ LET valid == KeepIn(wf.exclude, available)
       IN  IF planErr \/ ~(SeqToSet(valid) \subseteq SeqToSet(schema))
           THEN /\ planErr' = TRUE
                /\ UNCHANGED << schema, rows >>
           ELSE /\ schema' = KeepIn(schema, SeqToSet(schema) \ SeqToSet(valid))
                /\ rows' = DropColumns(rows, SeqToSet(valid))
                /\ UNCHANGED planErr
    /\ Continue
    /\ UNCHANGED << wf, input, nested, addl, meta, localVars, regexLog, exitCode,
                    outFile, outRows >>
    /\ UNCHANGED auxVars

\* Lines 141-165: the rules step 4 applies, in the order of regex_rules.
RECURSIVE RegexJobs(_, _, _, _)
RegexJobs(rules, tgts, pre, upd) ==
    IF Len(rules) = 0 THEN <<>>
    ELSE (IF /\ Len(rules[1].patterns) > 0
             /\ rules[1].col \notin tgts
             /\ rules[1].col \notin pre
             /\ rules[1].col \in upd
          THEN << rules[1] >> ELSE <<>>)
         \o RegexJobs(Tail(rules), tgts, pre, upd)

\* Step 4, lines 136-165.  Line 138 resolves the schema of the plan.
StepRegex ==
    /\ AtStep("regex")
    /\ IF planErr
       THEN /\ Raise("TransformError")
            /\ UNCHANGED << rows, regexLog, updated >>
       ELSE /\ updated' = SeqToSet(schema)
            /\ LET jobs == RegexJobs(wf.regex_rules, targets, precleanSet,
                                     SeqToSet(schema))
               IN  /\ rows' = ApplyJobs(rows, jobs)
                   /\ regexLog' = regexLog \o JobColumns(jobs)
            /\ Continue
    /\ UNCHANGED << wf, input, schema, nested, addl, meta, available, targets,
                    precleanSet, planErr, exitCode, outFile, outRows >>
    /\ UNCHANGED auxVars

\* Lines 171-172: the display_names entries whose old name is in
\* updated_columns and differs from the new name.
ValidRenames(w, upd) ==
    LET ok(d) == d.old \in upd /\ d.old # d.new
    IN  SelectSeq(w.display_names, ok)

\* renames.get(name, name)
RenameRef(renames, name) ==
    IF \E i \in 1..Len(renames) : renames[i].old = name
    THEN renames[CHOOSE i \in 1..Len(renames) : renames[i].old = name].new
    ELSE name

RenameAll(renames, names) ==
    [i \in 1..Len(names) |-> RenameRef(renames, names[i])]

\* ldf.rename(valid_renames): every column is renamed at once.
RenameRows(rws, renames) ==
    [i \in 1..Len(rws) |->
        [n \in { RenameRef(renames, c) : c \in DOMAIN rws[i] } |->
            rws[i][CHOOSE c \in DOMAIN rws[i] : RenameRef(renames, c) = n]]]

\* Lines 301-319: a string item is renamed, a dict item keeps its key and
\* has its fields renamed.
RenameItem(renames, item) ==
    IF item.kind = "field"
    THEN [item EXCEPT !.name = RenameRef(renames, item.name)]
    ELSE [item EXCEPT !.fields = RenameAll(renames, item.fields)]

\* Lines 291-299: "additional_info" is a reserved name of main_info.
RenameMain(renames, names) ==
    [i \in 1..Len(names) |->
        IF names[i] = "additional_info" THEN names[i]
        ELSE RenameRef(renames, names[i])]

\* A propagation that leaves the members of the groups as they were.
UpdateWorkflowColumnNamesFlat(w, renames) ==
    [w EXCEPT !.dedup = RenameAll(renames, w.dedup),
              !.not_empty = RenameAll(renames, w.not_empty),
              !.main_info = RenameMain(renames, w.main_info),
              !.additional_info =
                  [i \in 1..Len(w.additional_info) |->
                      IF w.additional_info[i].kind = "field"
                      THEN RenameItem(renames, w.additional_info[i])
                      ELSE w.additional_info[i]]]

\* _update_workflow_column_names
UpdateWorkflowColumnNames(w, renames) ==
    [w EXCEPT !.dedup = RenameAll(renames, w.dedup),
              !.not_empty = RenameAll(renames, w.not_empty),
              !.main_info = RenameMain(renames, w.main_info),
              !.additional_info =
                  [i \in 1..Len(w.additional_info) |->
                      RenameItem(renames, w.additional_info[i])]]

\* Step 5, lines 167-178.  A rename that makes two columns share a name is
\* an error of the plan, raised where its schema is next resolved.
StepRename ==
    /\ AtStep("rename")
    /\ LET renames == ValidRenames(wf, updated)
       IN  IF Len(wf.display_names) > 0 /\ Len(renames) > 0
           THEN /\ wf' = UpdateWorkflowColumnNames(wf, renames)
                /\ IF planErr \/ HasDuplicates(RenameAll(renames, schema))
                   THEN /\ planErr' = TRUE
                        /\ UNCHANGED << schema, rows >>
                   ELSE /\ schema' = RenameAll(renames, schema)
                        /\ rows' = RenameRows(rows, renames)
                        /\ UNCHANGED planErr
           ELSE UNCHANGED << wf, schema, rows, planErr >>
    /\ Continue
    /\ UNCHANGED << input, nested, addl, meta, localVars, regexLog, exitCode,
                    outFile, outRows >>
    /\ UNCHANGED auxVars

\* lowercase_columns(ldf, string_cols)
LowercaseCells(rws) ==
    [i \in 1..Len(rws) |-> [c \in DOMAIN rws[i] |-> ToLowercase(rws[i][c])]]

\* _apply_data_cleaning on every textual column.
CleanCells(rws) ==
    [i \in 1..Len(rws) |-> [c \in DOMAIN rws[i] |-> CleanValue(rws[i][c])]]

\* Step 6, lines 180-184: every textual column is lower-cased.  Line 181
\* resolves the schema of the plan.
StepLowercase ==
    /\ AtStep("lowercase")
    /\ IF planErr
       THEN /\ Raise("TransformError")
            /\ UNCHANGED rows
       ELSE /\ rows' = LowercaseCells(rows)
            /\ Continue
    /\ UNCHANGED << wf, input, schema, nested, addl, meta, localVars, regexLog,
                    planErr, exitCode, outFile, outRows >>
    /\ UNCHANGED auxVars

\* Step 7, line 187 and _apply_data_cleaning, whose exception is re-raised.
StepClean ==
    /\ AtStep("clean")
    /\ IF planErr
       THEN /\ Raise("TransformError")
            /\ UNCHANGED rows
       ELSE /\ rows' = CleanCells(rows)
            /\ Continue
    /\ UNCHANGED << wf, input, schema, nested, addl, meta, localVars, regexLog,
                    planErr, exitCode, outFile, outRows >>
    /\ UNCHANGED auxVars

\* ---------------------------------------------------------- _apply_nesting
\* Lines 220-223: the keys of the non-empty dict items.
GroupKeys(items) ==
    { items[i].name : i \in { j \in 1..Len(items) : items[j].kind = "group" } }

\* Lines 225-228: the string items that exist and are no group key.
FlatFields(items, names) ==
    LET ok(it) == it.kind = "field" /\ it.name \in names
                  /\ it.name \notin GroupKeys(items)
        kept == SelectSeq(items, ok)
    IN  [i \in 1..Len(kept) |-> kept[i].name]

\* Lines 229-235: for every dict item, the struct of its existing fields,
\* left out when none exists.
NestedStructs(items, names) ==
    LET ok(it) == it.kind = "group" /\ Len(KeepIn(it.fields, names)) > 0
        kept == SelectSeq(items, ok)
    IN  [i \in 1..Len(kept) |->
            [key |-> kept[i].name, fields |-> KeepIn(kept[i].fields, names)]]

\* Line 243
SafeMain(main, names) ==
    LET ok(c) == c # "additional_info" /\ c \in names
    IN  SelectSeq(main, ok)

\* The columns whose values make up the value of the struct.
StructLeaves(a) ==
    SeqToSet(a.flat) \cup UNION { SeqToSet(a.groups[i].fields) : i \in 1..Len(a.groups) }

StructFieldNames(a) == a.flat \o [i \in 1..Len(a.groups) |-> a.groups[i].key]

\* An except clause that raises the exception again.
ExceptReraises == Raise("TransformError")

\* The except clauses of _apply_nesting, lines 246-248, and of
\* _add_metadata_fields, lines 266-268: the exception is logged, the plan
\* the function was given is returned and the caller goes on.
ExceptReturnsPlan == Continue

\* Line 232 iterates the value of a dict item: TypeError when it is no list.
Malformed(items) == \E i \in 1..Len(items) : items[i].kind = "badgroup"

\* Step 8, line 190 and _apply_nesting.  An empty structure returns at line
\* 212; line 214 resolves the schema of the plan.
StepNest ==
    /\ AtStep("nest")
    /\ IF Len(wf.main_info) = 0 /\ Len(wf.additional_info) = 0
       THEN /\ UNCHANGED << schema, rows, nested, addl, planErr >>
            /\ Continue
       ELSE IF planErr \/ Malformed(wf.additional_info)
       THEN /\ UNCHANGED << schema, rows, nested, addl, planErr >>
            /\ ExceptReturnsPlan
       ELSE LET names == SeqToSet(schema)
                a     == [flat   |-> FlatFields(wf.additional_info, names),
                          groups |-> NestedStructs(wf.additional_info, names)]
                main  == SafeMain(wf.main_info, names)
            IN  /\ schema' = Append(main, "additional_info")
                /\ addl' = a
                /\ nested' = TRUE
                /\ rows' = DropColumns(rows,
                               names \ (SeqToSet(main) \cup StructLeaves(a)))
                /\ planErr' = (HasDuplicates(main) \/ HasDuplicates(StructFieldNames(a))
                               \/ \E i \in 1..Len(a.groups) :
                                      HasDuplicates(a.groups[i].fields))
                /\ Continue
    /\ UNCHANGED << wf, input, meta, localVars, regexLog, exitCode, outFile,
                    outRows >>
    /\ UNCHANGED auxVars

\* Step 9, line 193 and _add_metadata_fields: two literal columns, the same
\* scalar in every row.
StepMeta ==
    /\ AtStep("meta")
    /\ IF wf.has_year /\ ~wf.year_literal
       THEN /\ UNCHANGED << meta, schema >>
            /\ ExceptReturnsPlan
       ELSE /\ meta' = [added        |-> TRUE,
                        year         |-> IF wf.has_year THEN wf.year ELSE CurrentYear,
                        country_code |-> IF wf.has_country THEN wf.country_code
                                         ELSE "ru"]
            /\ schema' = WithColumn(WithColumn(schema, "year"), "country_code")
            /\ Continue
    /\ UNCHANGED << wf, input, rows, nested, addl, localVars, regexLog, planErr,
                    exitCode, outFile, outRows >>
    /\ UNCHANGED auxVars

\* ------------------------------------------------------- the row operator
MetaColumns == { "year", "country_code" }

\* Whether the top-level column c is null in row r.  A literal column is
\* never null; the struct is null only as the pl.lit(None) of line 241.
IsNullAt(r, c) ==
    IF meta.added /\ c \in MetaColumns THEN FALSE
    ELSE IF nested /\ c = "additional_info" THEN Len(StructFieldNames(addl)) = 0
    ELSE r[c] = Null

\* apply_validation: drop_nulls(subset=required_columns), with the names as
\* the workflow gives them; a name the schema lacks is an error of the plan.
StepValidate ==
    /\ AtStep("validate")
    /\ IF Len(wf.not_empty) = 0
       THEN UNCHANGED << rows, planErr >>
       ELSE IF planErr \/ ~(SeqToSet(wf.not_empty) \subseteq SeqToSet(schema))
            THEN /\ planErr' = TRUE
                 /\ UNCHANGED rows
            ELSE /\ LET ok(r) == \A c \in SeqToSet(wf.not_empty) : ~IsNullAt(r, c)
                    IN  rows' = SelectSeq(rows, ok)
                 /\ UNCHANGED planErr
    /\ Continue
    /\ UNCHANGED << wf, input, schema, nested, addl, meta, localVars, regexLog,
                    exitCode, outFile, outRows >>
    /\ UNCHANGED auxVars

\* Lines 372-391: the configured columns that exist, or every column when
\* none is configured or none exists.
UniqueColumns(w, sch) ==
    IF Len(w.dedup) = 0 THEN sch
    ELSE IF Len(KeepIn(w.dedup, SeqToSet(sch))) > 0
         THEN KeepIn(w.dedup, SeqToSet(sch))
         ELSE sch

\* The value of row r on the top-level columns cols: the literal columns are
\* the same in every row, and the struct is the tuple of its leaves.
KeyOf(r, cols) ==
    LET plain  == (SeqToSet(cols) \cap DOMAIN r)
                      \ (IF nested THEN {"additional_info"} ELSE {})
        leaves == IF nested /\ "additional_info" \in SeqToSet(cols)
                  THEN StructLeaves(addl) ELSE {}
    IN  [c \in plain \cup leaves |-> r[c]]

\* apply_deduplication: ldf.unique(subset) keeps any one row of each group.
\* Line 376 resolves the schema of the plan.
StepDedup ==
    /\ AtStep("dedup")
    /\ IF planErr
       THEN /\ Raise("TransformError")
            /\ UNCHANGED rows
       ELSE /\ LET cols == UniqueColumns(wf, schema)
                   keys == { KeyOf(rows[i], cols) : i \in 1..Len(rows) }
               IN  \E keep \in [keys -> 1..Len(rows)] :
                      /\ \A k \in keys : KeyOf(rows[keep[k]], cols) = k
                      /\ rows' = SubSeqAt(rows, { keep[k] : k \in keys }, 1)
            /\ Continue
    /\ UNCHANGED << wf, input, schema, nested, addl, meta, localVars, regexLog,
                    planErr, exitCode, outFile, outRows >>
    /\ UNCHANGED auxVars

\* ------------------------------------------------------------- the sink
\* process_streaming, lines 437-463: sink_parquet writes to the output path
\* itself.  It raises on a plan it cannot resolve and on an I/O error; what
\* an interrupted write leaves at the path is not determined by the code.
Sink ==
    /\ pc = "sink"
    /\ \/ /\ ~planErr
          /\ outFile' = "complete"
          /\ outRows' = rows
          /\ result' = "true"
          /\ pc' = "finish"
          /\ UNCHANGED err
       \/ /\ ReturnFalse("SinkError")
          /\ \E left \in { "absent", "partial" } : outFile' = left
          /\ UNCHANGED outRows
    /\ UNCHANGED << trace, step, wf, input, planVars, localVars, regexLog, planErr,
                    exitCode >>
    /\ UNCHANGED auxVars

\* A main that ends with status 0 whatever process_streaming returned.
ExitCodeAlwaysZero(success) == IF success THEN 0 ELSE 0

\* main, lines 552-557: sys.exit(1) unless process_streaming returned True;
\* returning from main ends the process with status 0.
ExitCode(success) == IF success THEN 0 ELSE 1

Finish ==
    /\ pc = "finish"
    /\ exitCode' = ExitCode(result = "true")
    /\ pc' = "exited"
    /\ UNCHANGED << trace, step, wf, input, planVars, localVars, regexLog, planErr,
                    result, err, outFile, outRows >>
    /\ UNCHANGED auxVars

Next ==
    \/ CheckInputs
    \/ LoadWorkflow
    \/ PrepareWorkflow
    \/ ScanSource
    \/ BeginColumnOps
    \/ StepPreclean
    \/ StepConcat
    \/ StepExclude
    \/ StepRegex
    \/ StepRename
    \/ StepLowercase
    \/ StepClean
    \/ StepNest
    \/ StepMeta
    \/ StepValidate
    \/ StepDedup
    \/ Sink
    \/ Finish

Spec == Init /\ [][Next]_vars

\* The process is scheduled until it exits.
FairSpec == Spec /\ WF_vars(Next)

\* ======================================================================
\*      utils/streaming_processor.py: StreamingDataProcessor, the driver
\*      process_file_streaming(input_path, workflow, output_path)
\* ======================================================================
\* The text of a workflow pattern, which "|".join(patterns) takes as the
\* regular expression itself.
PatternText ==
    [ cyrillic_common |-> <<"c", "y", "r", "i", "l", "l", "i", "c", "_",
                            "c", "o", "m", "m", "o", "n">>,
      latin_basic     |-> <<"l", "a", "t", "i", "n", "_", "b", "a", "s", "i", "c">>,
      digits          |-> <<"d", "i", "g", "i", "t", "s">>,
      space           |-> <<"s", "p", "a", "c", "e">>,
      bogus           |-> <<"b", "o", "g", "u", "s">>,
      double_quote    |-> <<"d", "o", "u", "b", "l", "e", "_", "q", "u", "o", "t", "e">> ]

\* str.extract_all of an alternation of literal texts, joined: the matches
\* from left to right, the first alternative that matches at a position.
RECURSIVE ExtractLiterals(_, _)
ExtractLiterals(lits, v) ==
    IF Len(v) = 0 THEN <<>>
    ELSE IF \E i \in 1..Len(lits) : HasPrefix(v, lits[i])
         THEN LET i == CHOOSE j \in 1..Len(lits) :
                          /\ HasPrefix(v, lits[j])
                          /\ \A k \in 1..(j - 1) : ~HasPrefix(v, lits[k])
              IN  lits[i] \o ExtractLiterals(lits, SubSeq(v, Len(lits[i]) + 1, Len(v)))
         ELSE ExtractLiterals(lits, Tail(v))

\* Lines 188-198: the extraction pass with combined_pattern = "|".join(patterns).
ApplyRawRegex(patterns, v) ==
    ExtractLiterals([i \in 1..Len(patterns) |-> PatternText[patterns[i]]],
                    IF v = Null THEN <<>> ELSE v)

\* Lines 183-201: every rule with patterns whose column is in updated_columns.
RECURSIVE ApplyRawRules(_, _, _)
ApplyRawRules(rws, rules, upd) ==
    IF Len(rules) = 0 THEN rws
    ELSE ApplyRawRules(
             IF Len(rules[1].patterns) > 0 /\ rules[1].col \in upd
             THEN [i \in 1..Len(rws) |->
                      [rws[i] EXCEPT ![rules[1].col] =
                          ApplyRawRegex(rules[1].patterns, @)]]
             ELSE rws,
             Tail(rules), upd)

\* _update_workflow_column_names_streaming: dedup and not_empty only.
UpdateWorkflowColumnNamesStreaming(w, renames) ==
    [w EXCEPT !.dedup = RenameAll(renames, w.dedup),
              !.not_empty = RenameAll(renames, w.not_empty)]

\* apply_column_operations_streaming: exclude, concatenate, regex, rename,
\* clean.  A column the plan cannot resolve is raised by the collect_schema
\* of line 180 (before the rename) or of _apply_data_cleaning_streaming
\* (after it).
ColumnOperationsStreaming(w, sch, rws) ==
    LET avail   == SeqToSet(sch)
        valid   == KeepIn(w.exclude, avail)
        dropped == [schema |-> KeepIn(sch, avail \ SeqToSet(valid)),
                    rows   |-> DropColumns(rws, SeqToSet(valid)),
                    err    |-> FALSE]
        st      == ConcatAll(dropped, w.concatenations, avail)
        upd     == SeqToSet(st.schema)
        renames == ValidRenames(w, upd)
        w2      == IF Len(renames) > 0
                   THEN UpdateWorkflowColumnNamesStreaming(w, renames) ELSE w
    IN  IF st.err
        THEN [err |-> TRUE, wf |-> w, schema |-> sch, rows |-> rws]
        ELSE IF HasDuplicates(RenameAll(renames, st.schema))
        THEN [err |-> TRUE, wf |-> w2, schema |-> sch, rows |-> rws]
        ELSE [err    |-> FALSE,
              wf     |-> w2,
              schema |-> RenameAll(renames, st.schema),
              rows   |-> CleanCells(RenameRows(
                             ApplyRawRules(st.rows, w.regex_rules, upd), renames))]

LibInit ==
    /\ pc = "lib_scan"
    /\ wf \in Workflows
    /\ step = 1
    /\ input = <<>>
    /\ schema = <<>>
    /\ rows = <<>>
    /\ nested = FALSE
    /\ addl = NoStruct
    /\ meta = NoMeta
    /\ available = {}
    /\ updated = {}
    /\ targets = {}
    /\ precleanSet = {}
    /\ regexLog = <<>>
    /\ trace = <<>>
    /\ planErr = FALSE
    /\ result = "none"
    /\ err = ""
    /\ exitCode = -1
    /\ outFile = "absent"
    /\ outRows = <<>>
    /\ memory = MaxMemoryPercent
    /\ ChunkIdle
    /\ FileIdle
    /\ CsvIdle

libFixed == << step, nested, addl, meta, localVars, regexLog, planErr, exitCode >>

\* process_file_streaming, lines 380-382: any exception makes it return False.
LibReturnFalse(kind) ==
    /\ pc' = "lib_done"
    /\ result' = "false"
    /\ err' = kind

\* Lines 353-358: the lazy scan and the count of the rows.
LibScan ==
    /\ pc = "lib_scan"
    /\ \/ \E t \in Tables :
            /\ input' = t
            /\ rows' = t
            /\ schema' = SourceSchema
            /\ pc' = "lib_columns"
            /\ UNCHANGED << result, err >>
       \/ /\ LibReturnFalse("SourceError")
          /\ UNCHANGED << input, rows, schema >>
    /\ UNCHANGED << wf, trace, outFile, outRows, libFixed >>
    /\ UNCHANGED auxVars

\* Line 361
LibColumnOps ==
    /\ pc = "lib_columns"
    /\ LET r == ColumnOperationsStreaming(wf, schema, rows)
       IN  /\ wf' = r.wf
           /\ IF r.err
              THEN /\ LibReturnFalse("TransformError")
                   /\ UNCHANGED << schema, rows, trace >>
              ELSE /\ schema' = r.schema
                   /\ rows' = r.rows
                   /\ trace' = Append(trace, "columns")
                   /\ pc' = "lib_dedup"
                   /\ UNCHANGED << result, err >>
    /\ UNCHANGED << input, outFile, outRows, libFixed >>
    /\ UNCHANGED auxVars

\* Line 362 and apply_deduplication_streaming
LibDedup ==
    /\ pc = "lib_dedup"
    /\ LET cols == UniqueColumns(wf, schema)
           keys == { KeyOf(rows[i], cols) : i \in 1..Len(rows) }
       IN  \E keep \in [keys -> 1..Len(rows)] :
              /\ \A k \in keys : KeyOf(rows[keep[k]], cols) = k
              /\ rows' = SubSeqAt(rows, { keep[k] : k \in keys }, 1)
    /\ trace' = Append(trace, "dedup")
    /\ pc' = "lib_validate"
    /\ UNCHANGED << wf, input, schema, result, err, outFile, outRows, libFixed >>
    /\ UNCHANGED auxVars

\* Line 363 and apply_validation_streaming: drop_nulls on the required
\* columns that exist; a warning when none does.
LibValidate ==
    /\ pc = "lib_validate"
    /\ LET valid == KeepIn(wf.not_empty, SeqToSet(schema))
           ok(r) == \A c \in SeqToSet(valid) : ~IsNullAt(r, c)
       IN  rows' = SelectSeq(rows, ok)
    /\ trace' = Append(trace, "validate")
    /\ pc' = "lib_collect"
    /\ UNCHANGED << wf, input, schema, result, err, outFile, outRows, libFixed >>
    /\ UNCHANGED auxVars

\* Line 367: collect(engine="streaming") materialises the plan.
LibCollect ==
    /\ pc = "lib_collect"
    /\ \/ /\ pc' = "lib_save"
          /\ UNCHANGED << result, err >>
       \/ LibReturnFalse("CollectError")
    /\ UNCHANGED << wf, input, schema, rows, trace, outFile, outRows, libFixed >>
    /\ UNCHANGED auxVars

\* Line 376 and _save_result_streaming, whose exception is re-raised.
LibSave ==
    /\ pc = "lib_save"
    /\ \/ /\ outFile' = "complete"
          /\ outRows' = rows
          /\ result' = "true"
          /\ pc' = "lib_done"
          /\ UNCHANGED err
       \/ /\ LibReturnFalse("SinkError")
          /\ \E left \in { "absent", "partial" } : outFile' = left
          /\ UNCHANGED outRows
    /\ UNCHANGED << wf, input, schema, rows, trace, libFixed >>
    /\ UNCHANGED auxVars

LibNext ==
    \/ LibScan
    \/ LibColumnOps
    \/ LibDedup
    \/ LibValidate
    \/ LibCollect
    \/ LibSave

LibSpec == LibInit /\ [][LibNext]_vars

\* ------------------------------------------- the cleaning chain on its own
\* _apply_data_cleaning applied to a one-column table of one text, and then
\* applied to its own result.
CleanAlphabet == {"0", " ", "n", "a", "\\", "<U+200B>", "\""}

RECURSIVE TextsOfLen(_)
TextsOfLen(n) ==
    IF n = 0 THEN { <<>> }
    ELSE { Append(t, ch) : t \in TextsOfLen(n - 1), ch \in CleanAlphabet }

CleanTexts == UNION { TextsOfLen(n) : n \in 0..MaxText } \cup { Null }

CleanInit ==
    /\ pc = "clean_once"
    /\ \E t \in CleanTexts : input = << [text |-> t] >>
    /\ rows = input
    /\ schema = << "text" >>
    /\ wf = BaseWorkflow
    /\ step = 1
    /\ nested = FALSE
    /\ addl = NoStruct
    /\ meta = NoMeta
    /\ available = {}
    /\ updated = {}
    /\ targets = {}
    /\ precleanSet = {}
    /\ regexLog = <<>>
    /\ trace = <<>>
    /\ planErr = FALSE
    /\ result = "none"
    /\ err = ""
    /\ exitCode = -1
    /\ outFile = "absent"
    /\ outRows = <<>>
    /\ memory = MaxMemoryPercent
    /\ ChunkIdle
    /\ FileIdle
    /\ CsvIdle

cleanFixed == << step, wf, input, schema, nested, addl, meta, localVars, regexLog,
                 planErr, result, err, exitCode, outFile >>

\* The first application.
CleanOnce ==
    /\ pc = "clean_once"
    /\ rows' = CleanCells(rows)
    /\ trace' = Append(trace, "clean")
    /\ pc' = "clean_again"
    /\ UNCHANGED << cleanFixed, outRows >>
    /\ UNCHANGED auxVars

\* The second application; outRows keeps the result of the first.
CleanAgain ==
    /\ pc = "clean_again"
    /\ outRows' = rows
    /\ rows' = CleanCells(rows)
    /\ trace' = Append(trace, "clean")
    /\ pc' = "clean_done"
    /\ UNCHANGED cleanFixed
    /\ UNCHANGED auxVars

CleanNext == CleanOnce \/ CleanAgain

CleanSpec == CleanInit /\ [][CleanNext]_vars

\* ---------------------------------------------- utils/filename_utils.py
\* ALLOWED_COUNTRY_CODES as sequences of characters.
AllowedCodeChars ==
    { <<"r", "u">>, <<"k", "g">>, <<"u", "z">>, <<"t", "m">>, <<"u", "a">>,
      <<"b", "y">>, <<"n", "l">>, <<"a", "z">> }

LowerLetters ==
    { "a", "b", "c", "d", "e", "f", "g", "h", "i", "j", "k", "l", "m", "n", "o",
      "p", "q", "r", "s", "t", "u", "v", "w", "x", "y", "z" }

DigitChars == { "0", "1", "2", "3", "4", "5", "6", "7", "8", "9" }

\* [a-z0-9_-]
SafeChars == LowerLetters \cup DigitChars \cup { "_", "-" }

\* CYRILLIC_TO_LATIN_MAPPING.get(ch, ch)
TranslitChar(ch) == IF ch \in { CyrU, CyrL } THEN "i" ELSE ch

TransliterateCyrillicToLatin(text) == [i \in 1..Len(text) |-> TranslitChar(text[i])]

\* validate_country_code: cc.lower() in ALLOWED_COUNTRY_CODES
ValidateCountryCode(cc) == ToLowercase(cc) \in AllowedCodeChars

\* re.sub(r"_+", "_", name)
RECURSIVE CollapseUnderscores(_)
CollapseUnderscores(v) ==
    IF Len(v) <= 1 THEN v
    ELSE IF v[1] = "_" /\ v[2] = "_" THEN CollapseUnderscores(Tail(v))
    ELSE << v[1] >> \o CollapseUnderscores(Tail(v))

\* name.strip("_-")
RECURSIVE StripEdges(_)
StripEdges(v) ==
    IF Len(v) > 0 /\ v[1] \in { "_", "-" } THEN StripEdges(Tail(v))
    ELSE IF Len(v) > 0 /\ v[Len(v)] \in { "_", "-" }
         THEN StripEdges(SubSeq(v, 1, Len(v) - 1))
    ELSE v

\* sanitize_basename, lines 27-43: transliterate, lower, every dot, comma,
\* space and illegal character to an underscore, underscores collapsed, the
\* edges stripped, "data" when nothing is left.
SanitizeBasename(basename) ==
    LET low  == ToLowercase(TransliterateCyrillicToLatin(basename))
        und  == [i \in 1..Len(low) |-> IF low[i] \in SafeChars THEN low[i] ELSE "_"]
        name == StripEdges(CollapseUnderscores(und))
    IN  IF Len(name) = 0 THEN << "d", "a", "t", "a" >> ELSE name

\* The position of the dot that starts the suffix of a name, 0 when it has
\* none: pathlib takes the last dot that is neither first nor last.
SuffixDot(name) ==
    LET dots == { i \in 2..(Len(name) - 1) : name[i] = "." }
    IN  IF dots = {} THEN 0 ELSE CHOOSE i \in dots : \A j \in dots : j <= i

\* Path(name).stem and Path(name).suffix
Stem(name) == IF SuffixDot(name) = 0 THEN name ELSE SubSeq(name, 1, SuffixDot(name) - 1)
Suffix(name) == IF SuffixDot(name) = 0 THEN <<>> ELSE SubSeq(name, SuffixDot(name), Len(name))

\* extension.replace('.', '_')
DotsToUnderscores(v) == [i \in 1..Len(v) |-> IF v[i] = "." THEN "_" ELSE v[i]]

NomadPrefix == << "n", "o", "m", "a", "d", "-" >>
ParquetSuffix == << ".", "p", "a", "r", "q", "u", "e", "t" >>

\* generate_nomad_filename, lines 70-84, for a valid country code.
GenerateNomadFilename(country_code, original_filename, year, version) ==
    NomadPrefix \o ToLowercase(country_code) \o << "-" >>
        \o SanitizeBasename(Stem(original_filename))
        \o DotsToUnderscores(Suffix(original_filename))
        \o << "-" >> \o year \o << "-" >> \o version \o ParquetSuffix

AllIn(v, set) == \A i \in 1..Len(v) : v[i] \in set

\* re.match(r"^nomad-[a-z]{2}-[a-z0-9_-]+-\d{4}-v\d+\.parquet$", filename):
\* some length k of the version digits and m of the middle part fit.
MatchesPattern(f) ==
    \E k \in 1..Len(f) : \E m \in 1..Len(f) :
        /\ Len(f) = Len(NomadPrefix) + 2 + 1 + m + 1 + 4 + 2 + k + Len(ParquetSuffix)
        /\ SubSeq(f, 1, 6) = NomadPrefix
        /\ AllIn(SubSeq(f, 7, 8), LowerLetters)
        /\ f[9] = "-"
        /\ AllIn(SubSeq(f, 10, 9 + m), SafeChars)
        /\ f[10 + m] = "-"
        /\ AllIn(SubSeq(f, 11 + m, 14 + m), DigitChars)
        /\ SubSeq(f, 15 + m, 16 + m) = << "-", "v" >>
        /\ AllIn(SubSeq(f, 17 + m, 16 + m + k), DigitChars)
        /\ SubSeq(f, 17 + m + k, Len(f)) = ParquetSuffix

\* validate_nomad_filename, lines 87-105: the pattern, then the country code
\* that is the second of the parts split at "-".
ValidateNomadFilename(f) ==
    /\ Len(f) > 0
    /\ MatchesPattern(f)
    /\ ValidateCountryCode(SubSeq(f, 7, 8))

FileAlphabet == { "a", "A", ".", "_", CyrU }

RECURSIVE NamesOfLen(_)
NamesOfLen(n) ==
    IF n = 0 THEN { <<>> }
    ELSE { Append(t, ch) : t \in NamesOfLen(n - 1), ch \in FileAlphabet }

\* The non-empty names; one that starts or ends with a dot is left out, as
\* pathlib splits it differently from one version of Python to another.
OriginalNames ==
    { n \in UNION { NamesOfLen(k) : k \in 1..MaxName } :
        n[1] # "." /\ n[Len(n)] # "." }

CountryInputs == AllowedCodeChars \cup { << "x", "x" >> }
YearInputs == { << "2", "0", "2", "4" >> }
VersionInputs == { << "v", "1" >>, << "v", "1", "0" >> }

FileInit ==
    /\ pc = "file"
    /\ \E cc \in CountryInputs, n \in OriginalNames, y \in YearInputs,
          v \in VersionInputs :
            fname = [IdleName EXCEPT !.pc = "generate", !.country_code = cc,
                                     !.original_filename = n, !.year = y,
                                     !.version = v]
    /\ step = 1
    /\ wf = BaseWorkflow
    /\ input = <<>>
    /\ schema = <<>>
    /\ rows = <<>>
    /\ nested = FALSE
    /\ addl = NoStruct
    /\ meta = NoMeta
    /\ available = {}
    /\ updated = {}
    /\ targets = {}
    /\ precleanSet = {}
    /\ regexLog = <<>>
    /\ trace = <<>>
    /\ planErr = FALSE
    /\ result = "none"
    /\ err = ""
    /\ exitCode = -1
    /\ outFile = "absent"
    /\ outRows = <<>>
    /\ memory = MaxMemoryPercent
    /\ ChunkIdle
    /\ CsvIdle

\* generate_nomad_filename: ValueError for a country code that is not
\* allowed, the built name otherwise.
FileGenerate ==
    /\ fname.pc = "generate"
    /\ IF ValidateCountryCode(fname.country_code)
       THEN fname' = [fname EXCEPT
                !.filename = GenerateNomadFilename(fname.country_code,
                                 fname.original_filename, fname.year, fname.version),
                !.pc = "validate"]
       ELSE fname' = [fname EXCEPT !.error = "ValueError", !.pc = "done"]
    /\ UNCHANGED << cliVars, memory, chunkVars, csv >>

\* validate_nomad_filename applied to the built name.
FileValidate ==
    /\ fname.pc = "validate"
    /\ fname' = [fname EXCEPT
            !.accepted = IF ValidateNomadFilename(fname.filename) THEN "true" ELSE "false",
            !.pc = "done"]
    /\ UNCHANGED << cliVars, memory, chunkVars, csv >>

FileNext == FileGenerate \/ FileValidate

FileSpec == FileInit /\ [][FileNext]_vars

\* ------------------------------ process_in_streaming_chunks of the library
\* __init__, line 28: the directory given to the constructor, or the one
\* directory "streaming_processor" under the system's temp directory.  The
\* first run is built without temp_dir, the second with or without.
TempDirChoices(r) ==
    IF r = 1 THEN { "streaming_processor" } ELSE { "streaming_processor", "custom" }

\* A loop that advances by one row whatever chunk_size is.
NextOffsetByOne(offset, chunk_size) == offset + 1

\* range(0, total_rows, self.chunk_size)
NextOffset(offset, chunk_size) == offset + chunk_size

\* ldf.slice(offset, self.chunk_size): the rows, numbered from 1, of a chunk.
SliceRows(offset, chunk_size, total_rows) ==
    { i \in 1..total_rows : offset < i /\ i <= offset + chunk_size }

\* The file temp_dir / chunk_<offset>.parquet.
FilesAt(dir, names) == { f \in disk.files : f.dir = dir /\ f.name \in names }

ChunkInit ==
    /\ pc = "chunks"
    /\ \E size \in 1..MaxChunkSize :
         crun \in [ Runs -> { [IdleRun EXCEPT !.pc = "start", !.total_rows = n,
                                              !.chunk_size = size, !.temp_dir = d] :
                                n \in 0..MaxTotalRows,
                                d \in { "streaming_processor", "custom" } } ]
    /\ \A r \in Runs : crun[r].temp_dir \in TempDirChoices(r)
    /\ disk = [ dirs |-> { crun[r].temp_dir : r \in Runs }, files |-> {} ]
    /\ memory = MaxMemoryPercent
    /\ FileIdle
    /\ CsvIdle
    /\ step = 1
    /\ wf = BaseWorkflow
    /\ input = <<>>
    /\ schema = <<>>
    /\ rows = <<>>
    /\ nested = FALSE
    /\ addl = NoStruct
    /\ meta = NoMeta
    /\ available = {}
    /\ updated = {}
    /\ targets = {}
    /\ precleanSet = {}
    /\ regexLog = <<>>
    /\ trace = <<>>
    /\ planErr = FALSE
    /\ result = "none"
    /\ err = ""
    /\ exitCode = -1
    /\ outFile = "absent"
    /\ outRows = <<>>

\* Lines 75-80: the rows are counted; an input of at most chunk_size rows is
\* given to operation_func whole.  An exception of the count or of the
\* operation is caught at line 136 and None is returned.
ChunkEnter(r) ==
    /\ crun[r].pc = "start"
    /\ IF crun[r].total_rows <= crun[r].chunk_size
       THEN \E outcome \in { "whole", "None" } :
                crun' = [crun EXCEPT ![r].pc = "returned", ![r].ret = outcome]
       ELSE \/ crun' = [crun EXCEPT ![r].pc = "check", ![r].offset = 0]
            \/ crun' = [crun EXCEPT ![r].pc = "returned", ![r].ret = "None"]
    /\ UNCHANGED << cliVars, memory, disk, fname, csv >>

\* Line 91 and check_memory_usage, lines 31-38: a sample; above the
\* threshold gc.collect() and a second sample; true iff the last sample is
\* at most the threshold.  On false the function returns None through the
\* finally block.
ChunkCheckMemory(r) ==
    /\ crun[r].pc = "check"
    /\ \E first \in MemorySamples, second \in MemorySamples :
         LET last == IF first > MaxMemoryPercent THEN second ELSE first
             ok   == last <= MaxMemoryPercent
         IN  /\ memory' = last
             /\ crun' = [crun EXCEPT ![r].memOk = ok,
                                     ![r].pc = IF ok THEN "slice" ELSE "finally",
                                     ![r].pending = IF ok THEN "" ELSE "None"]
    /\ UNCHANGED << cliVars, disk, fname, csv >>

\* Lines 95-115: the chunk is sliced, operation_func is applied, a result
\* that is not None is written to chunk_<offset>.parquet in temp_dir and the
\* file is appended to temp_files.  An exception of the operation or of the
\* write leaves the loop; a write that fails may have created the file.
ChunkProcess(r) ==
    /\ crun[r].pc = "slice"
    /\ LET c     == crun[r]
           file  == [ dir |-> c.temp_dir, name |-> c.offset, by |-> r ]
           others == { f \in disk.files : ~(f.dir = c.temp_dir /\ f.name = c.offset) }
           next  == NextOffset(c.offset, c.chunk_size)
           sliced == [c EXCEPT !.chunks = Append(c.chunks,
                                   SliceRows(c.offset, c.chunk_size, c.total_rows)),
                               !.offset = next,
                               !.pc = IF next < c.total_rows THEN "check" ELSE "combine"]
           failed == [c EXCEPT !.chunks = Append(c.chunks,
                                   SliceRows(c.offset, c.chunk_size, c.total_rows)),
                               !.pc = "finally", !.pending = "None"]
       IN  \/ /\ c.temp_dir \in disk.dirs
              /\ disk' = [disk EXCEPT !.files = others \cup
                                          { [file EXCEPT !.whole = TRUE] }]
              /\ crun' = [crun EXCEPT ![r] =
                             [sliced EXCEPT !.temp_files = Append(c.temp_files, c.offset)]]
           \/ /\ crun' = [crun EXCEPT ![r] = sliced]
              /\ UNCHANGED disk
           \/ /\ crun' = [crun EXCEPT ![r] = failed]
              /\ UNCHANGED disk
           \/ /\ c.temp_dir \in disk.dirs
              /\ disk' = [disk EXCEPT !.files = others \cup
                                          { [file EXCEPT !.whole = FALSE] }]
              /\ crun' = [crun EXCEPT ![r] = failed]
    /\ UNCHANGED << cliVars, memory, fname, csv >>

\* Lines 117-127: None when no chunk was written; else the scan of the
\* first file, stacked with the scans of the others.  LazyFrame.vstack of
\* line 125 and the scan of a file that is gone raise or not with the
\* polars installed.
ChunkCombine(r) ==
    /\ crun[r].pc = "combine"
    /\ LET c == crun[r]
           names == { c.temp_files[i] : i \in 1..Len(c.temp_files) }
           outcomes ==
               IF Len(c.temp_files) = 0 THEN { "None" }
               ELSE { "plan" } \cup
                    ( IF Len(c.temp_files) > 1
                         \/ \E n \in names : FilesAt(c.temp_dir, {n}) = {}
                      THEN { "None" } ELSE {} )
       IN  \E outcome \in outcomes :
               crun' = [crun EXCEPT ![r].pc = "finally", ![r].pending = outcome,
                                    ![r].scans = IF outcome = "plan" THEN names ELSE {}]
    /\ UNCHANGED << cliVars, memory, disk, fname, csv >>

\* Lines 129-135: the finally block unlinks every file of temp_files; an
\* unlink that fails, as of a file that is gone, is only logged.  Then the
\* function returns.
ChunkFinally(r) ==
    /\ crun[r].pc = "finally"
    /\ LET c == crun[r]
           names == { c.temp_files[i] : i \in 1..Len(c.temp_files) }
       IN  /\ disk' = [disk EXCEPT !.files = disk.files \ FilesAt(c.temp_dir, names)]
           /\ crun' = [crun EXCEPT ![r].pc = "returned", ![r].ret = c.pending]
    /\ UNCHANGED << cliVars, memory, fname, csv >>

\* cleanup_temp_files, lines 436-443: shutil.rmtree of temp_dir.
ChunkCleanup(r) ==
    /\ crun[r].pc = "returned"
    /\ LET c == crun[r]
       IN  /\ disk' = [ dirs  |-> disk.dirs \ { c.temp_dir },
                        files |-> { f \in disk.files : f.dir # c.temp_dir } ]
           /\ crun' = [crun EXCEPT ![r].pc = "cleaned"]
    /\ UNCHANGED << cliVars, memory, fname, csv >>

ChunkNext ==
    \E r \in Runs :
        \/ ChunkEnter(r)
        \/ ChunkCheckMemory(r)
        \/ ChunkProcess(r)
        \/ ChunkCombine(r)
        \/ ChunkFinally(r)
        \/ ChunkCleanup(r)

ChunkSpec == ChunkInit /\ [][ChunkNext]_vars

\* ------------------------------------------------- stream_csv_parser.py
\* A record as csv.reader yields it: the number of its fields, none for a
\* blank line, and the number of lines of the file it spans, more than one
\* when a quoted field holds a line break.
CsvRecord(fields, lines) == [ fields |-> fields, lines |-> lines ]

RecordPool ==
    { CsvRecord(0, 1), CsvRecord(1, 1), CsvRecord(2, 1), CsvRecord(1, 2),
      CsvRecord(2, 2) }

RECURSIVE RecordsOfLen(_)
RecordsOfLen(n) ==
    IF n = 0 THEN { <<>> }
    ELSE { Append(t, r) : t \in RecordsOfLen(n - 1), r \in RecordPool }

CsvInputs == UNION { RecordsOfLen(n) : n \in 0..MaxCsvRecords }

\* Line 101: len(row) == expected_columns
ValidRow(fields, expected_columns) == fields = expected_columns

CsvInit ==
    /\ pc = "csv"
    /\ \E recs \in CsvInputs : csv = [IdleCsv EXCEPT !.pc = "open", !.records = recs]
    /\ FileIdle
    /\ memory = MaxMemoryPercent
    /\ ChunkIdle
    /\ step = 1
    /\ wf = BaseWorkflow
    /\ input = <<>>
    /\ schema = <<>>
    /\ rows = <<>>
    /\ nested = FALSE
    /\ addl = NoStruct
    /\ meta = NoMeta
    /\ available = {}
    /\ updated = {}
    /\ targets = {}
    /\ precleanSet = {}
    /\ regexLog = <<>>
    /\ trace = <<>>
    /\ planErr = FALSE
    /\ result = "none"
    /\ err = ""
    /\ exitCode = -1
    /\ outFile = "absent"
    /\ outRows = <<>>

\* Lines 75-97: the files are opened, the header of the bad-rows file is
\* written, the first record is read and copied to the output as the
\* header; an input with no record makes the function return None.
CsvHeader ==
    /\ csv.pc = "open"
    /\ IF Len(csv.records) = 0
       THEN csv' = [csv EXCEPT !.pc = "done", !.ret = "None"]
       ELSE csv' = [csv EXCEPT !.pc = "rows",
                               !.expected_columns = csv.records[1].fields,
                               !.out = << 1 >>,
                               !.pos = 2]
    /\ UNCHANGED << cliVars, memory, chunkVars, fname >>

\* Lines 100-115, one turn of the loop: enumerate(reader, start=2) numbers
\* the records; a record of as many fields as the header goes to the
\* output, any other to the bad-rows file with its number.
CsvRow ==
    /\ csv.pc = "rows"
    /\ csv.pos <= Len(csv.records)
    /\ IF ValidRow(csv.records[csv.pos].fields, csv.expected_columns)
       THEN csv' = [csv EXCEPT !.out = Append(csv.out, csv.pos),
                               !.valid_count = csv.valid_count + 1,
                               !.pos = csv.pos + 1]
       ELSE csv' = [csv EXCEPT !.bad = Append(csv.bad,
                                          [ row_num |-> csv.pos, record |-> csv.pos ]),
                               !.bad_count = csv.bad_count + 1,
                               !.pos = csv.pos + 1]
    /\ UNCHANGED << cliVars, memory, chunkVars, fname >>

\* Lines 128-133: the loop is over and the two counts are returned.
CsvReturn ==
    /\ csv.pc = "rows"
    /\ csv.pos > Len(csv.records)
    /\ csv' = [csv EXCEPT !.pc = "done", !.ret = "counts"]
    /\ UNCHANGED << cliVars, memory, chunkVars, fname >>

\* Lines 128-130: an exception of the reader or of a file is logged and
\* raised again.
CsvRaise ==
    /\ csv.pc = "rows"
    /\ csv' = [csv EXCEPT !.pc = "done", !.ret = "raised"]
    /\ UNCHANGED << cliVars, memory, chunkVars, fname >>

CsvNext == CsvHeader \/ CsvRow \/ CsvReturn \/ CsvRaise

CsvSpec == CsvInit /\ [][CsvNext]_vars

\* ======================================================================
\*                              The claims
\* ======================================================================
\* The state of the run: what main and process_streaming have completed.
RunState ==
    IF err # "" THEN "Failed"
    ELSE CASE pc \in {"check", "load"}     -> "Init"
           [] pc \in {"prepare", "scan"}   -> "WorkflowLoaded"
           [] pc \in {"begin", "pipeline"} -> "SourceOpened"
           [] pc = "sink"                  -> "Transformed"
           [] pc = "finish"                -> "Written"
           [] OTHER                        -> "Done"

Terminal == { "Done", "Failed" }

LinearEdges ==
    { <<"Init", "WorkflowLoaded">>, <<"WorkflowLoaded", "SourceOpened">>,
      <<"SourceOpened", "Transformed">>, <<"Transformed", "Written">>,
      <<"Written", "Done">> }

\* The pipeline step `name` has just completed.
JustAfter(name) ==
    /\ pc \in {"pipeline", "sink"}
    /\ Len(trace) > 0
    /\ trace[Len(trace)] = name

Occurrences(s, x) == Cardinality({ i \in 1..Len(s) : s[i] = x })

IsPrefix(a, b) == Len(a) <= Len(b) /\ a = SubSeq(b, 1, Len(a))

\* ---------------------------------------------------------------------- C1
C1_StepAllowed ==
    \/ RunState' = RunState
    \/ <<RunState, RunState'>> \in LinearEdges
    \/ RunState \notin Terminal /\ RunState' = "Failed"

C1_ExitCode ==
    /\ exitCode = 0 <=> RunState = "Done"
    /\ exitCode = 1 <=> (RunState = "Failed" /\ pc = "exited")
    /\ exitCode \in {-1, 0, 1}
    /\ RunState = "Done" => outFile = "complete" /\ result = "true"

C2_RowOperatorBeforeReshape ==
    (AtStep("validate") \/ AtStep("dedup")) =>
        /\ ~nested
        /\ ~meta.added
        /\ Occurrences(trace, "nest") = 0
        /\ Occurrences(trace, "meta") = 0

\* ---------------------------------------------------------------------- C3
CanonicalOrder ==
    << "preclean", "concat", "exclude", "regex", "rename", "lowercase", "clean" >>

C3_ConcatThenExclude ==
    JustAfter("exclude") /\ ~planErr =>
        \A k \in 1..Len(wf.concatenations) :
            LET c    == wf.concatenations[k]
                srcs == c.source_columns
                pre  == ApplyJobs(input, PrecleanJobs(wf, wf.concatenations,
                                                     targets, precleanSet))
            IN  (Len(srcs) > 0 /\ SeqToSet(srcs) \subseteq SeqToSet(SourceSchema)) =>
                    /\ c.name \in SeqToSet(schema)
                    /\ \A x \in SeqToSet(wf.exclude) \cap SeqToSet(SourceSchema) :
                           x \notin SeqToSet(schema)
                    /\ \A i \in 1..Len(rows) :
                           rows[i][c.name] =
                               ConcatStr([j \in 1..Len(srcs) |-> pre[i][srcs[j]]],
                                         c.separator)

C3_LowercaseSeesRenamedFiltered ==
    (AtStep("lowercase") \/ AtStep("clean")) /\ ~planErr =>
        LET ren  == ValidRenames(wf, updated)
            jobs == RegexJobs(wf.regex_rules, targets, precleanSet, updated)
        IN  /\ SeqToSet(schema) = { RenameRef(ren, c) : c \in updated }
            /\ \A j \in 1..Len(jobs) : \A i \in 1..Len(rows) :
                   SeqToSet(rows[i][RenameRef(ren, jobs[j].col)])
                       \subseteq CombinedClass(jobs[j].patterns)

\* C3: the steps of the column operator complete in the canonical order
\* pre-clean, concatenate, exclude, regex, rename, lower-case, clean; a
\* concatenation is built from its sources' data before an excluded source
\* is dropped; lower-casing and cleaning see the renamed, regex-filtered
\* columns.
C3_CanonicalOrder ==
    /\ IsPrefix(KeepIn(trace, SeqToSet(CanonicalOrder)), CanonicalOrder)
    /\ C3_ConcatThenExclude
    /\ C3_LowercaseSeesRenamedFiltered

C3_Witness ==
    /\ JustAfter("exclude")
    /\ wf.exclude = <<"first">>
    /\ Len(wf.concatenations) = 1
    /\ "fio" \in SeqToSet(schema)
    /\ "first" \notin SeqToSet(schema)
    /\ Len(rows) > 0
    /\ rows[1].fio = <<CyrU, "a", " ", "A">>

\* ---------------------------------------------------------------------- C4
\* The sources of entry k are sources of no other entry that has a rule.
C4_OwnSources(k) ==
    \A m \in 1..Len(wf.concatenations) :
        (m # k /\ wf.concatenations[m].name \in targets) =>
            SeqToSet(wf.concatenations[m].source_columns)
                \cap SeqToSet(wf.concatenations[k].source_columns) = {}

\* C4: after step 4, a concatenation target T with a rule of known keys and
\* with all its sources present equals
\* apply_regex(rule, concat(sep, clean(S1), ..., clean(Sk))), clean being
\* apply_regex(rule, .) on the source file's values.
C4_TargetIsRegexOfConcat ==
    JustAfter("regex") =>
        \A k \in 1..Len(wf.concatenations) :
            LET c    == wf.concatenations[k]
                srcs == c.source_columns
                rule == RuleFor(wf, c.name)
            IN  ( /\ Len(rule) > 0
                  /\ Len(PatternStrings(rule)) = Len(rule)
                  /\ Len(srcs) > 0
                  /\ SeqToSet(srcs) \subseteq SeqToSet(SourceSchema)
                  /\ C4_OwnSources(k) ) =>
                    \A i \in 1..Len(rows) :
                        rows[i][c.name] =
                            ApplyRegex(rule,
                                ConcatStr([j \in 1..Len(srcs) |->
                                              ApplyRegex(rule, input[i][srcs[j]])],
                                          c.separator))

\* ---------------------------------------------------------------------- C5
\* C5: no column receives more than one regex extraction pass.
C5_AtMostOnePass ==
    \A i \in 1..Len(regexLog) : Occurrences(regexLog, regexLog[i]) <= 1

\* ---------------------------------------------------------------------- C6
\* The reference old of the workflow has become the reference new: when old
\* named a column, new names the column that now holds its data, and a name
\* that named no column is left as it was.
C6_RefTracks(old, new) ==
    IF old \in SeqToSet(schema)
    THEN /\ new \in SeqToSet(schema')
         /\ Len(rows') = Len(rows)
         /\ \A i \in 1..Len(rows) : rows'[i][new] = rows[i][old]
    ELSE new = old

C6_ListTracks(olds, news) ==
    /\ Len(news) = Len(olds)
    /\ \A k \in 1..Len(olds) : C6_RefTracks(olds[k], news[k])

C6_RenameStep ==
    AtStep("rename") /\ ~planErr' =>
        /\ C6_ListTracks(wf.dedup, wf'.dedup)
        /\ C6_ListTracks(wf.not_empty, wf'.not_empty)
        /\ Len(wf'.main_info) = Len(wf.main_info)
        /\ \A k \in 1..Len(wf.main_info) :
               IF wf.main_info[k] = "additional_info"
               THEN wf'.main_info[k] = "additional_info"
               ELSE C6_RefTracks(wf.main_info[k], wf'.main_info[k])
        /\ Len(wf'.additional_info) = Len(wf.additional_info)
        /\ \A k \in 1..Len(wf.additional_info) :
               LET old == wf.additional_info[k]
                   new == wf'.additional_info[k]
               IN  /\ new.kind = old.kind
                   /\ IF old.kind = "field"
                      THEN C6_RefTracks(old.name, new.name)
                      ELSE /\ new.name = old.name
                           /\ C6_ListTracks(old.fields, new.fields)

\* C6: the rename step rewrites every reference of dedup.unique_columns,
\* not_empty.columns, structure.main_info and structure.additional_info
\* (flat items and group members) to the name under which the column it
\* named is now found, all references at once (a swap exchanges them), and
\* leaves every other reference, the group keys and "additional_info" as
\* they were.
C6_RenamePropagation == [][C6_RenameStep]_vars

C6_Witness ==
    /\ JustAfter("rename")
    /\ ~planErr
    /\ wf.display_names = << Display("first", "last"), Display("last", "first") >>
    /\ wf.dedup = <<"last">>
    /\ wf.not_empty = <<"last">>
    /\ wf.additional_info = << Field("last"), Group("grp", <<"first">>) >>
    /\ Len(rows) > 0
    /\ input[1].first # input[1].last
    /\ rows[1].last = input[1].first
    /\ rows[1].first = input[1].last

\* ---------------------------------------------------------------------- C7
\* C7: after the row operator no two rows agree on every column of
\* dedup.unique_columns that exists in the data.
C7_KeyUnique ==
    JustAfter("dedup") =>
        \A i \in 1..Len(rows) : \A j \in 1..Len(rows) :
            LET K == SeqToSet(wf.dedup) \cap DOMAIN rows[i]
            IN  (i < j /\ K # {}) => \E c \in K : rows[i][c] # rows[j][c]

\* ---------------------------------------------------------------------- C8
C8_ValidateStep ==
    AtStep("validate") /\ ~planErr =>
        LET present == SeqToSet(wf.not_empty) \cap SeqToSet(schema)
            ok(r)   == \A c \in present : ~IsNullAt(r, c)
        IN  /\ ~planErr'
            /\ rows' = SelectSeq(rows, ok)

\* C8: the not-null filter drops exactly the rows that are null in a listed
\* column the schema has; a listed name the schema lacks is skipped and
\* leaves the plan resolvable.
C8_NotNullFilter == [][C8_ValidateStep]_vars

\* ---------------------------------------------------------------------- C9
\* C9: when the deduplication is applied the validation has been applied:
\* no row it chooses from is null in a required column that exists.
C9_ValidationBeforeDedup ==
    (AtStep("dedup") \/ pc = "lib_dedup") /\ ~planErr =>
        /\ Occurrences(trace, "validate") = 1
        /\ \A i \in 1..Len(rows) :
               \A c \in SeqToSet(wf.not_empty) \cap SeqToSet(schema) :
                   ~IsNullAt(rows[i], c)

\* ---------------------------------------------------------------------- C10
\* C10: a workflow without the year key or without the country_code key
\* does not fail the run, and the metadata columns then hold the current
\* year and "ru".
C10_DefaultsApplied ==
    (~wf.has_year \/ ~wf.has_country) =>
        /\ RunState # "Failed" \/ err \in {"SourceError", "SinkError"}
        /\ meta.added =>
               /\ ~wf.has_year => meta.year = CurrentYear
               /\ ~wf.has_country => meta.country_code = "ru"

\* --------------------------------------------------------------------- C11
\* The text of a value, a null read as the empty text.
NullAsEmpty(v) == IF v = Null THEN <<>> ELSE v

\* C11: just after step 2, the column of every concatenation entry whose
\* sources are columns of the file (and not the entry's own name) holds, in
\* every row, the sources joined by the separator with each null read as
\* the empty text.
C11_NullSourceIsEmpty ==
    JustAfter("concat") /\ ~planErr =>
        \A k \in 1..Len(wf.concatenations) :
            LET c    == wf.concatenations[k]
                srcs == c.source_columns
            IN  ( /\ Len(srcs) > 0
                  /\ SeqToSet(srcs) \subseteq SeqToSet(SourceSchema)
                  /\ c.name \notin SeqToSet(srcs) ) =>
                    \A i \in 1..Len(rows) :
                        rows[i][c.name] =
                            JoinText([j \in 1..Len(srcs) |->
                                         NullAsEmpty(rows[i][srcs[j]])],
                                     c.separator)

\* --------------------------------------------------------------------- C12
\* The columns of the plan when entry k of step 2 is reached: those of the
\* plan before step 2 and the ones the earlier entries have added.
C12_SchemaAt(k) ==
    SeqToSet(schema) \cup
        { wf.concatenations[m].name : m \in
            { n \in 1..(k - 1) :
                wf.concatenations[n].name \in SeqToSet(schema') } }

C12_ConcatStep ==
    AtStep("concat") /\ ~planErr =>
        /\ ~planErr'
        /\ \A k \in 1..Len(wf.concatenations) :
               LET c == wf.concatenations[k]
               IN  c.name \notin SeqToSet(schema) =>
                       ( c.name \in SeqToSet(schema')
                           <=> /\ Len(c.source_columns) > 0
                               /\ SeqToSet(c.source_columns) \subseteq C12_SchemaAt(k) )

\* C12: step 2 adds the column of an entry exactly when every source of the
\* entry is a column of the plan at that point (a column of the file or one
\* that an earlier entry created), and never fails the plan.
C12_BuiltIffSourcesExist == [][C12_ConcatStep]_vars

\* --------------------------------------------------------------------- C13
\* C13: just after step 3 no name of columns.exclude is a column of the
\* plan, and the step has not failed the plan.
C13_ExcludedAreGone ==
    JustAfter("exclude") =>
        /\ ~planErr
        /\ \A x \in SeqToSet(wf.exclude) : x \notin SeqToSet(schema)

\* --------------------------------------------------------------------- C14
C14_ConcatStep ==
    AtStep("concat") =>
        \A k \in 1..Len(wf.concatenations) :
            LET c == wf.concatenations[k]
            IN  ( /\ c.name \in SeqToSet(schema)
                  /\ Len(c.source_columns) > 0
                  /\ SeqToSet(c.source_columns) \subseteq SeqToSet(schema) ) =>
                    /\ planErr'
                    /\ Len(rows') = Len(rows)
                    /\ \A i \in 1..Len(rows) : rows'[i][c.name] = rows[i][c.name]

\* C14: step 2 fails the plan on an entry whose name is already a column of
\* the plan, and leaves the values of that column as they were.
C14_NameCollisionRejected == [][C14_ConcatStep]_vars

\* --------------------------------------------------------------------- C15
C15_Unique(names) == Cardinality(SeqToSet(names)) = Len(names)

\* What step 5 would name the columns of the plan.
C15_Renamed == RenameAll(ValidRenames(wf, updated), schema)

C15_Collision == AtStep("rename") /\ ~planErr /\ ~C15_Unique(C15_Renamed)

C15_RenameStep ==
    AtStep("rename") /\ ~planErr =>
        IF C15_Unique(C15_Renamed)
        THEN /\ ~planErr'
             /\ schema' = C15_Renamed
             /\ C15_Unique(schema')
             /\ Len(rows') = Len(rows)
             /\ \A i \in 1..Len(rows) : \A k \in 1..Len(schema) :
                    rows'[i][C15_Renamed[k]] = rows[i][schema[k]]
        ELSE /\ planErr'
             /\ schema' = schema

\* C15: step 5 renames all columns at once, each column keeping its data
\* under its new name; when two columns would share a name the plan fails,
\* the run reaches Failed and is never Written or Done; after a step 5 that
\* did not fail, the names of the schema are unique.
C15_RenameCollisionFails ==
    /\ [][C15_RenameStep]_vars
    /\ [](planErr => RunState \notin {"Written", "Done"})
    /\ (C15_Collision ~> (RunState = "Failed"))

C15_Witness ==
    /\ RunState = "Failed"
    /\ err = "TransformError"
    /\ wf.display_names = << Display("first", "last") >>
    /\ trace = << "preclean", "concat", "exclude", "regex", "rename" >>
    /\ schema = SourceSchema
    /\ Len(rows) > 0

\* --------------------------------------------------------------------- C16
C16_UnknownKey ==
    \E k \in 1..Len(wf.regex_rules) :
        Len(PatternStrings(wf.regex_rules[k].patterns))
            # Len(wf.regex_rules[k].patterns)

\* C16: a run whose workflow has a rule with a key the registry lacks does
\* not complete step 4.
C16_UnknownKeyFails ==
    C16_UnknownKey => Occurrences(trace, "regex") = 0

\* --------------------------------------------------------------------- C17
\* The characters of v that are in class, in their order.
RECURSIVE C17_Permitted(_, _)
C17_Permitted(v, class) ==
    IF Len(v) = 0 THEN <<>>
    ELSE (IF Head(v) \in class THEN << Head(v) >> ELSE <<>>)
             \o C17_Permitted(Tail(v), class)

C17_Class(keys) == UNION { REGEX_PATTERNS_UNICODE[keys[i]] : i \in 1..Len(keys) }

\* Rule k is one that step 4 applies: its column is in the plan, is neither a
\* regex-targeted concatenation target nor a pre-cleaned source, and all its
\* keys are known.
C17_Applies(k) ==
    LET r == wf.regex_rules[k]
    IN  /\ r.col \in SeqToSet(schema)
        /\ r.col \notin targets
        /\ r.col \notin precleanSet
        /\ \A j \in 1..Len(r.patterns) : r.patterns[j] \in DOMAIN REGEX_PATTERNS_UNICODE

C17_RegexStep ==
    AtStep("regex") /\ ~planErr =>
        /\ Len(rows') = Len(rows)
        /\ \A k \in 1..Len(wf.regex_rules) : \A i \in 1..Len(rows) :
               LET r == wf.regex_rules[k]
               IN  C17_Applies(k) =>
                       rows'[i][r.col] =
                           IF Len(r.patterns) = 0 THEN rows[i][r.col]
                           ELSE C17_Permitted(NullAsEmpty(rows[i][r.col]),
                                              C17_Class(r.patterns))

\* In a workflow that only has regex rules, a value that keeps no character
\* is null after step 7.
C17_EmptyBecomesNull ==
    ( /\ JustAfter("clean")
      /\ Len(wf.concatenations) = 0
      /\ Len(wf.display_names) = 0 ) =>
        \A k \in 1..Len(wf.regex_rules) : \A i \in 1..Len(rows) :
            LET r == wf.regex_rules[k]
            IN  ( /\ C17_Applies(k)
                  /\ Len(r.patterns) > 0
                  /\ C17_Permitted(NullAsEmpty(input[i][r.col]),
                                   C17_Class(r.patterns)) = <<>> ) =>
                    rows[i][r.col] = Null

C18_Existing(names, present) ==
    LET ok(c) == c \in present IN SelectSeq(names, ok)

C18_Main ==
    LET ok(c) == c # "additional_info" IN
    SelectSeq(C18_Existing(wf.main_info, SeqToSet(schema)), ok)

C18_Strings ==
    LET isField(it) == it.kind = "field"
        isGroup(it) == it.kind = "group"
        fields == SelectSeq(wf.additional_info, isField)
        groups == SelectSeq(wf.additional_info, isGroup)
        keys   == { groups[i].name : i \in 1..Len(groups) }
        ok(it) == it.name \in SeqToSet(schema) /\ it.name \notin keys
        kept   == SelectSeq(fields, ok)
    IN  [i \in 1..Len(kept) |-> kept[i].name]

C18_Dicts ==
    LET isGroup(it) == it.kind = "group"
        groups == SelectSeq(wf.additional_info, isGroup)
    IN  [i \in 1..Len(groups) |->
            [key    |-> groups[i].name,
             fields |-> C18_Existing(groups[i].fields, SeqToSet(schema))]]

C18_NestStep ==
    AtStep("nest") /\ ~planErr =>
        IF Len(wf.main_info) = 0 /\ Len(wf.additional_info) = 0
        THEN schema' = schema /\ rows' = rows /\ ~nested'
        ELSE /\ schema' = Append(C18_Main, "additional_info")
             /\ addl'.flat = C18_Strings
             /\ addl'.groups = C18_Dicts

\* C18: with a non-empty structure the schema after step 8 is the existing
\* members of main_info other than additional_info, in list order, then one
\* column additional_info whose fields are the existing string items that
\* are no group key, in order, and then for every dict item a nested struct
\* of its existing members; with an empty structure the plan is unchanged.
C18_NestedSchema == [][C18_NestStep]_vars

\* --------------------------------------------------------------------- C19
\* C19: the cleaning substeps of step 7 applied twice to a textual value
\* give what one application gives.
C19_CleaningIdempotent == pc = "clean_done" => rows = outRows

\* --------------------------------------------------------------------- C20
C20_Tokens ==
    { <<>>, <<" ">>, <<"n", "a", "n">>, <<"N", "a", "N">>, <<"n", "o", "n", "e">>,
      <<"N", "o", "n", "e">>, <<"n", "u", "l", "l">>, <<"N", "U", "L", "L">>, <<"0">> }

\* C20: after the cleaning of step 7 no value is one of "", " ", "nan",
\* "NaN", "none", "None", "null", "NULL", "0": a null stays null, a value
\* whose cleaned, stripped form is in that set is null, and every other
\* value is kept in its cleaned form.
C20_NoEmptyToken ==
    pc \in {"clean_again", "clean_done"} =>
        /\ rows[1].text \notin C20_Tokens
        /\ pc = "clean_again" =>
               LET v == input[1].text
               IN  rows[1].text =
                       IF v = Null THEN Null
                       ELSE IF StripChars(CleanText(v)) \in C20_Tokens THEN Null
                       ELSE CleanText(v)

C20_Witness ==
    /\ pc = "clean_again"
    /\ input[1].text = << "\"", "0", " " >>
    /\ rows[1].text = Null

\* --------------------------------------------------------------------- C21
\* C21: a run that ends in a state other than Done leaves no file, partial
\* or complete, at the final output path.
C21_NoOutputUnlessDone ==
    (pc = "exited" /\ RunState # "Done") => outFile = "absent"

\* --------------------------------------------------------------------- C22
\* C22: a workflow whose country_code is outside the allowed set is rejected
\* at load: the run fails before the source is opened, and no output carries
\* a country_code outside the allowed set.
C22_CountryCodeChecked ==
    /\ (wf.has_country /\ wf.country_code \notin ALLOWED_COUNTRY_CODES) =>
           /\ pc \notin { "scan", "begin", "pipeline", "sink", "finish" }
           /\ pc = "exited" => RunState = "Failed"
           /\ input = <<>>
           /\ outFile = "absent"
    /\ (outFile = "complete" /\ meta.added) =>
           meta.country_code \in ALLOWED_COUNTRY_CODES

\* --------------------------------------------------------------------- C23
\* C23: a run during which the usage of memory stays above the threshold
\* aborts before the sink commits any output: it ends in Failed and no
\* output file is written.
C23_AbortsOnMemoryPressure ==
    memory > MaxMemoryPercent =>
        /\ outFile = "absent"
        /\ pc = "exited" => RunState = "Failed"

\* --------------------------------------------------------------------- C24
\* C24: for every allowed country code, non-empty original name, four-digit
\* year and version v<digits>, the name generate_nomad_filename builds is
\* accepted by validate_nomad_filename, and it is nomad-<cc>-<safe>-<year>-
\* <version>.parquet with <safe> non-empty and made of [a-z0-9_-] only.
C24_BuiltNameIsValid ==
    (fname.pc = "done" /\ fname.country_code \in AllowedCodeChars) =>
        /\ fname.accepted = "true"
        /\ \E safe \in { SubSeq(fname.filename, 10, j) : j \in 10..Len(fname.filename) } :
               /\ AllIn(safe, SafeChars)
               /\ fname.filename =
                      NomadPrefix \o fname.country_code \o << "-" >> \o safe
                          \o << "-" >> \o fname.year \o << "-" >> \o fname.version
                          \o ParquetSuffix

\* --------------------------------------------------------------------- C25
\* A step touches a chunk file of run s only if it is a step of run s.
C25_OwnFilesOnly ==
    \A f \in disk.files :
        (f \notin disk'.files) => crun'[f.by] # crun[f.by]

\* C25: the chunk files of a run live in a directory of its own: no step of
\* one run overwrites or deletes a file of another; and once the routine
\* has returned, on any path, no chunk file of that run is left.
C25_ChunkFilesPrivate ==
    /\ [][C25_OwnFilesOnly]_vars
    /\ [](\A r \in Runs : crun[r].pc = "returned" =>
              \A f \in disk.files : f.by # r)

\* --------------------------------------------------------------------- C28
\* The chunks taken so far are those at offsets 0, chunk_size, 2*chunk_size,
\* ..., each of chunk_size rows but for the last.
C28_ChunksAtOffsets(r) ==
    LET c == crun[r]
    IN  \A k \in 1..Len(c.chunks) :
            c.chunks[k] = { i \in 1..c.total_rows :
                              (k - 1) * c.chunk_size < i /\ i <= k * c.chunk_size }

\* After the last chunk every row is in exactly one chunk.
C28_Partition(r) ==
    LET c == crun[r]
    IN  (c.total_rows > c.chunk_size /\ c.pc = "combine") =>
            \A i \in 1..c.total_rows :
                Cardinality({ k \in 1..Len(c.chunks) : i \in c.chunks[k] }) = 1

\* The step that returns leaves none of the files of temp_files, the files
\* of the returned plan among them.
C28_ReturnStep(r) ==
    (crun[r].pc = "finally" /\ crun'[r].pc = "returned") =>
        /\ \A i \in 1..Len(crun[r].temp_files) :
               \A f \in disk'.files :
                   ~(f.dir = crun[r].temp_dir /\ f.name = crun[r].temp_files[i])
        /\ crun'[r].ret = "plan" =>
               /\ crun'[r].scans # {}
               /\ \A f \in disk'.files :
                      ~(f.dir = crun[r].temp_dir /\ f.name \in crun'[r].scans)
        /\ ~crun[r].memOk => crun'[r].ret = "None"

C26_RegexConcats ==
    { j \in 1..Len(wf.concatenations) :
        \E k \in 1..Len(wf.regex_rules) :
            /\ wf.regex_rules[k].col = wf.concatenations[j].name
            /\ Len(wf.regex_rules[k].patterns) > 0 }

\* The rule of the target of concatenation j: its keys, and those known.
C26_Keys(j) ==
    LET k == CHOOSE k \in 1..Len(wf.regex_rules) :
                 wf.regex_rules[k].col = wf.concatenations[j].name
    IN  wf.regex_rules[k].patterns

C26_Known(j) ==
    { C26_Keys(j)[i] : i \in 1..Len(C26_Keys(j)) } \cap DOMAIN REGEX_PATTERNS_UNICODE

C26_SourcesOf(j) ==
    { wf.concatenations[j].source_columns[i] :
        i \in 1..Len(wf.concatenations[j].source_columns) } \cap SeqToSet(SourceSchema)

\* Step 1 filters a source of one regex-targeted concatenation by the rule
\* of the target, and leaves it alone when no key of that rule is known.
C26_PrecleanStep ==
    AtStep("preclean") =>
        \A j \in C26_RegexConcats : \A s \in C26_SourcesOf(j) :
            (\A j2 \in C26_RegexConcats : s \in C26_SourcesOf(j2) => j2 = j) =>
                \A i \in 1..Len(rows) :
                    rows'[i][s] =
                        IF C26_Known(j) = {} THEN rows[i][s]
                        ELSE C17_Permitted(NullAsEmpty(rows[i][s]),
                                 UNION { REGEX_PATTERNS_UNICODE[p] : p \in C26_Known(j) })

\* Step 4 applies no rule to such a source nor to the target.
C26_RegexStepSkips ==
    AtStep("regex") /\ ~planErr =>
        \A j \in C26_RegexConcats :
            \A c \in C26_SourcesOf(j) \cup { wf.concatenations[j].name } :
                /\ Occurrences(regexLog', c) = Occurrences(regexLog, c)
                /\ \A i \in 1..Len(rows) :
                       c \in DOMAIN rows[i] => rows'[i][c] = rows[i][c]

\* With no known key in the target's rule, neither the target nor a source
\* of it alone is ever filtered.
C26_UnknownOnly ==
    \A j \in C26_RegexConcats :
        C26_Known(j) = {} =>
            \A c \in C26_SourcesOf(j) \cup { wf.concatenations[j].name } :
                (\A j2 \in C26_RegexConcats : c \in C26_SourcesOf(j2) => j2 = j) =>
                    Occurrences(regexLog, c) = 0

C27_NestingError ==
    /\ AtStep("nest")
    /\ Len(wf.main_info) + Len(wf.additional_info) > 0
    /\ planErr \/ \E i \in 1..Len(wf.additional_info) :
                      wf.additional_info[i].kind = "badgroup"

C27_MetadataError == AtStep("meta") /\ wf.has_year /\ ~wf.year_literal

\* Such a step returns the plan as it was given and the run goes on.
C27_SwallowStep ==
    (C27_NestingError \/ C27_MetadataError) =>
        /\ RunState' # "Failed"
        /\ step' = step + 1
        /\ << schema, rows, nested, addl, meta >>' = << schema, rows, nested, addl, meta >>

C29_Quotes == { "\"", "'" }

C29_Unquoted(v) ==
    IF v = Null THEN Null
    ELSE LET keep(ch) == ch \notin C29_Quotes IN SelectSeq(v, keep)

C29_HasQuote(v) == v # Null /\ \E i \in 1..Len(v) : v[i] \in C29_Quotes

\* Step 7 gives every cell what it gives the cell with its quotes deleted
\* beforehand, and leaves no quote.
C29_CleanStep ==
    AtStep("clean") /\ ~planErr =>
        \A i \in 1..Len(rows) : \A c \in DOMAIN rows[i] :
            /\ ~C29_HasQuote(rows'[i][c])
            /\ rows'[i][c] = CleanValue(C29_Unquoted(rows[i][c]))

\* C29: the cleaning step deletes every double and single quote of every
\* textual value before any other normalisation, whatever the workflow: no
\* value of the output has a quote, even in a column whose regex rule keeps
\* the double_quote pattern.
C29_QuotesDeleted ==
    /\ [][C29_CleanStep]_vars
    /\ [](outFile = "complete" =>
             \A i \in 1..Len(outRows) : \A c \in DOMAIN outRows[i] :
                 ~C29_HasQuote(outRows[i][c]))

C29_Witness ==
    /\ JustAfter("clean")
    /\ wf.regex_rules = << Rule("id", <<"double_quote", "latin_basic">>) >>
    /\ Len(rows) > 0
    /\ input[1].id = << "A", "\\", "\"", "n" >>
    /\ rows[1].id = << "a" >>

\* --------------------------------------------------------------------- C30
\* The line of the file at which record k starts, the header at line 1.
RECURSIVE C30_LineOf(_)
C30_LineOf(k) == IF k = 1 THEN 1 ELSE C30_LineOf(k - 1) + csv.records[k - 1].lines

C30_Rising(s) == \A i, j \in 1..Len(s) : i < j => s[i] < s[j]

\* The data records read so far are split between the two files.
C30_Partition ==
    csv.pc \in { "rows", "done" } /\ csv.ret # "None" =>
        /\ \A k \in 2..(csv.pos - 1) :
               LET inOut == Cardinality({ i \in 2..Len(csv.out) : csv.out[i] = k })
                   inBad == Cardinality({ i \in 1..Len(csv.bad) : csv.bad[i].record = k })
               IN  /\ inOut + inBad = 1
                   /\ inOut = 1 <=> csv.records[k].fields = csv.records[1].fields
        /\ csv.out[1] = 1
        /\ \A i \in 2..Len(csv.out) : csv.out[i] \in 2..(csv.pos - 1)
        /\ \A i \in 1..Len(csv.bad) : csv.bad[i].record \in 2..(csv.pos - 1)
        /\ C30_Rising(csv.out)
        /\ csv.valid_count = Len(csv.out) - 1
        /\ csv.bad_count = Len(csv.bad)
        /\ csv.ret = "counts" =>
               csv.valid_count + csv.bad_count = Len(csv.records) - 1

\* C30 as stated: the data rows are partitioned between the output file
\* and the bad-rows file by their field count, the counts add up to the
\* rows read, valid rows keep their order, and a bad row is tagged with its
\* 1-based line number.
C30_TaggedWithLineNumber ==
    /\ C30_Partition
    /\ \A i \in 1..Len(csv.bad) :
           csv.bad[i].row_num = C30_LineOf(csv.bad[i].record)

=============================================================================
